---- MODULE Spec2Model ----
(***************************************************************************)
(* Domino Boneyard API: the state engine (DominoService), the process-     *)
(* local store (domino_sets) and the request handlers of app/api/endpoints,*)
(* with USE_REDIS = false (app/core/config.py:30, the default, and the     *)
(* configuration of tests/conftest.py) unless a specification says         *)
(* otherwise, and the websocket side (ConnectionManager).                  *)
(*                                                                         *)
(* Python objects are modelled with their identity where the code shares   *)
(* them: get_set returns a SHALLOW copy of the stored dict, so the list    *)
(* under "tiles" and the dict under "piles" of a loaded record are the     *)
(* very objects the store holds.  `lists` and `dicts` are the heap of      *)
(* these objects; a record holds references into it.                       *)
(*                                                                         *)
(* Spec       requests of two callers against the store: the dependency    *)
(*            get_set of an endpoint and the endpoint's body are separate  *)
(*            steps.                                                       *)
(* SpecEngine the engine's operations applied one after the other to the   *)
(*            record create_set returned.                                  *)
(* SpecStore  the store's operations (create_set, get_set, _save_set,      *)
(*            delete_set) called directly while time passes.               *)
(* SpecTiles  generate_tiles run tile by tile for every set type.          *)
(* SpecRedis  the store's operations with USE_REDIS = true: keys with      *)
(*            leases, while time passes.                                   *)
(* SpecBackends every request served by both backends side by side.        *)
(* SpecNotify every request with a websocket subscribed: the broadcast a   *)
(*            request ends with.                                           *)
(* SpecFanOut two websockets and two callers: broadcast passes suspended   *)
(*            in their sends while websockets connect and disconnect.      *)
(* SpecRedisNotify subscriptions and a broadcasting request with           *)
(*            USE_REDIS = true.                                            *)
(***************************************************************************)
EXTENDS Integers, Sequences, FiniteSets, TLC

VARIABLES
    lists,        \* heap: list objects held under a record's "tiles" key
    dicts,        \* heap: dict objects held under a record's "piles" key
    domino_sets,  \* the store: set_id -> record (references into the heap)
    local,        \* per caller: the dict `domino_set` it works on
    pc,           \* per caller: "idle" | "loaded" (it holds a record)
    resp,         \* the outcome of the operation that ran last
    created,      \* history: set_id -> tiles the record had at creation
    handed,       \* history: set_id -> tiles returned to callers by draws
    last_accessed,\* set_id -> time.time() of the last access
    now,          \* what time.time() returns
    gen,          \* a call of generate_tiles: its argument, its loop, its list
    redis,        \* the Redis server: the keys of the sets and of their access times
    active_connections, \* ConnectionManager: set_id -> list of websockets
    sockets,      \* per websocket: where its handler is, what was sent to it
    passes,       \* per caller: the broadcast its request is in
    envelopes     \* history: the number of broadcasts invoked so far

\* the state of the websocket side
notifier == <<active_connections, sockets, passes, envelopes>>

vars == <<lists, dicts, domino_sets, local, pc, resp, created, handed,
          last_accessed, now, gen, redis, notifier>>

----------------------------------------------------------------------------
(* Bounds of the model *)

MaxCount   == 3   \* DrawRequest.count ranges over 1..MaxCount
MaxReqLen  == 2   \* TileListRequest.tiles has 1..MaxReqLen entries
MaxPile    == 2   \* add_to_pile is explored while the pile stays <= MaxPile
MaxYard    == 3   \* tiles are put back while the boneyard stays <= MaxYard
MaxVersion == 3   \* _save_set is explored while version < MaxVersion
MaxHeld    == 3   \* engine runs start on a record of at most MaxHeld tiles
MaxTime    == 3   \* time.time() ranges over 0..MaxTime, counted in weeks
MaxEnvelopes == 2  \* broadcasts are started while fewer than MaxEnvelopes were
MaxRedisVersion == 6  \* under Redis requests are served while version + 2 <= MaxRedisVersion

\* 14 * 24 * 60 * 60 seconds: two weeks
SET_EXPIRY_SECONDS == 2

SetIds    == {"s1"}
Reqs      == {"r1", "r2"}

\* the order in which records are visited when heap objects are numbered
SetOrder == <<"s1">>
ReqOrder == <<"r1", "r2">>
PileNames == {"p1", "p2"}

\* the pile names the requests against the store use
RequestPiles == {"p1"}

\* scaled-down set types (max value 0: tile 00; max value 1: tiles 00 01 11)
\* stand for the five types of the source, whose boneyards (28..190 tiles)
\* cannot be permuted exhaustively
ModelTypes == {"double-zero", "double-one"}

\* the (type, sets) pairs of CreateSetRequest that are explored
RequestSets == {<<"double-zero", 2>>}

\* the tile ids that add and return requests name: a record may hold each
\* of them twice, once or not at all
RequestTiles == {"00", "01"}

\* the records the engine is run on: create_set(type, sets)
EngineSets == {<<"double-one", 1>>, <<"double-one", 2>>}

\* the caller that runs the engine directly
Caller == "r1"

\* the set the requests that are broadcast work on, and the tiles their
\* add and return requests name
NotifySets  == {<<"double-zero", 1>>}
NotifyTiles == {<<"00">>}

\* the websockets that are opened while every kind of request is made
NotifyChans == {"w1"}

\* the (type, sets) pairs create_set is called with on the store
StoreSets == {<<"double-zero", 1>>, <<"double-zero", 2>>, <<"double-one", 1>>}

----------------------------------------------------------------------------
(* Pure helpers: Python list operations *)

Range(s) == {s[i] : i \in DOMAIN s}

\* x in s
Contains(s, x) == \E i \in DOMAIN s : s[i] = x

\* number of occurrences of x in s
Count(s, x) == Cardinality({i \in DOMAIN s : s[i] = x})

\* multiset equality of two sequences
SameBag(s, t) == \A x \in Range(s) \cup Range(t) : Count(s, x) = Count(t, x)

\* index of the first occurrence of x in s (x is in s)
FirstIndex(s, x) == CHOOSE i \in DOMAIN s : s[i] = x /\ \A j \in 1..(i-1) : s[j] # x

\* s without its i-th element
DropAt(s, i) == SubSeq(s, 1, i-1) \o SubSeq(s, i+1, Len(s))

\* index of the last occurrence of x in s (x is in s)
LastIndex(s, x) == CHOOSE i \in DOMAIN s : s[i] = x /\ \A j \in (i+1)..Len(s) : s[j] # x

\* a removal that takes the last occurrence
list_remove_last(s, x) == DropAt(s, LastIndex(s, x))

\* list.remove(x): removes the first occurrence (raises ValueError if absent)
list_remove(s, x) == DropAt(s, FirstIndex(s, x))

\* all orders random.shuffle can leave the list in
Permutations_of(s) ==
    {t \in [DOMAIN s -> Range(s)] : SameBag(t, s)}

RECURSIVE Repeat(_, _)
Repeat(s, k) == IF k = 0 THEN <<>> ELSE s \o Repeat(s, k-1)

RECURSIVE Flatten(_, _)
\* concatenation of the values of a piles dict, over the names in `names`
Flatten(p, names) ==
    IF names = {} THEN <<>>
    ELSE LET n == CHOOSE m \in names : TRUE
         IN  p[n] \o Flatten(p, names \ {n})

----------------------------------------------------------------------------
(* Tiles *)

VALID_DOMINO_TYPES ==
    {"double-six", "double-nine", "double-twelve", "double-fifteen", "double-eighteen"}

\* the set types generate_tiles is called with: the five of the table and
\* one that is not in it
GenTypes == VALID_DOMINO_TYPES \cup {"double-seven"}

\* the table of generate_tiles, plus the scaled-down model types
max_value ==
    ("double-six" :> 6) @@ ("double-nine" :> 9) @@ ("double-twelve" :> 12) @@
    ("double-fifteen" :> 15) @@ ("double-eighteen" :> 18) @@
    ("double-zero" :> 0) @@ ("double-one" :> 1)

\* an id of the first value and the last digit of the second
tile_id_digit(i, j) == ToString(i) \o ToString(j % 10)

\* f"{i}{j}": the two values written as raw decimal digits, no separator
tile_id(i, j) == ToString(i) \o ToString(j)

RECURSIVE tile_row(_, _, _)
\* [f"{i}{j}" for j in range(j0, N + 1)]
tile_row(i, j0, N) ==
    IF j0 > N THEN <<>> ELSE <<tile_id(i, j0)>> \o tile_row(i, j0 + 1, N)

RECURSIVE tile_rows(_, _)
\* [f"{i}{j}" for i in range(i0, N + 1) for j in range(i, N + 1)]
tile_rows(i0, N) ==
    IF i0 > N THEN <<>> ELSE tile_row(i0, i0, N) \o tile_rows(i0 + 1, N)

generate_tiles(set_type) == tile_rows(0, max_value[set_type])

----------------------------------------------------------------------------
(* Records and the heap *)

NumObjs == Cardinality(Reqs) + Cardinality(SetIds) + 1
ObjIds  == 1..NumObjs

\* a caller that holds no record
NoRec == [set_id |-> "", type |-> "", tiles |-> 0, piles |-> 0, version |-> 0]

\* the outcome of the operation that ran last: its kind and its status
NoResp == [op |-> "", status |-> 0]

\* the references under key f ("tiles" or "piles") held by the store and by
\* the callers, in visiting order; 0 where there is no record
Roots(store, loc, f) ==
    [j \in DOMAIN SetOrder |->
        IF SetOrder[j] \in DOMAIN store THEN store[SetOrder[j]][f] ELSE 0]
    \o [j \in DOMAIN ReqOrder |-> loc[ReqOrder[j]][f]]

Live(store, loc, f) == Range(Roots(store, loc, f)) \ {0}

\* a new object: an identity no live record refers to
FreshIn(live) == CHOOSE i \in ObjIds : i \notin live /\ \A j \in 1..(i-1) : j \in live

FreshList == FreshIn(Live(domino_sets, local, "tiles"))
FreshDict == FreshIn(Live(domino_sets, local, "piles"))

\* Object identities carry no meaning beyond equality, so after every step
\* each live object is renamed to the position of the first record (in
\* visiting order) that refers to it, and the objects no record refers to
\* any more are reclaimed.
Rank(roots, x) == IF x = 0 THEN 0 ELSE FirstIndex(roots, x)

Renumbered(heap, roots) ==
    [i \in ObjIds |->
        IF i \in DOMAIN roots /\ roots[i] # 0 /\ FirstIndex(roots, roots[i]) = i
        THEN heap[roots[i]] ELSE <<>>]

\* the value of a record: what its references point at
View(rec) == [tiles |-> lists[rec.tiles], piles |-> dicts[rec.piles],
              version |-> rec.version]

\* a piles dict with piles[name] = tiles
dict_put(p, name, tiles) ==
    [m \in DOMAIN p \cup {name} |-> IF m = name THEN tiles ELSE p[m]]

\* piles[name] = []: the entry emptied, not removed
dict_del_empty(p, name) == [m \in DOMAIN p |-> IF m = name THEN <<>> ELSE p[m]]

\* del piles[name]
dict_del(p, name) == [m \in DOMAIN p \ {name} |-> p[m]]

\* all tiles of a record value, boneyard first
AllTiles(v) == v.tiles \o Flatten(v.piles, DOMAIN v.piles)

----------------------------------------------------------------------------
(* The engine: DominoService operations on a dict `ds` the caller holds.   *)
(* Each yields the status (200, or the HTTPException's code), the caller's *)
(* dict afterwards, the heap afterwards, and what it returns.              *)

Outcome(code, ds, L, D, ret, n) ==
    [status |-> code, ds |-> ds, lists |-> L, dicts |-> D, ret |-> ret, n |-> n]

\* raise HTTPException(code): nothing was assigned before the raise
Raise(code, ds, detail) == Outcome(code, ds, lists, dicts, detail, 0)

\* the slice [-count:]
drawn_slice_last(tiles, count) == SubSeq(tiles, Len(tiles) - count + 1, Len(tiles))

\* domino_set["tiles"][:count]
drawn_slice(tiles, count) == SubSeq(tiles, 1, count)

\* the slice [count + 1:]
rest_slice_skip(tiles, count) == SubSeq(tiles, count + 2, Len(tiles))

\* domino_set["tiles"][count:]
rest_slice(tiles, count) == SubSeq(tiles, count + 1, Len(tiles))

\* the comparison count >= len(domino_set["tiles"])
draw_too_many_or_all(tiles, count) == count >= Len(tiles)

\* count > len(domino_set["tiles"])
draw_too_many(tiles, count) == count > Len(tiles)

draw_tiles(ds, count) ==
    LET tiles == lists[ds.tiles]
        new   == FreshList
    IN  IF draw_too_many(tiles, count)
        THEN Raise(409, ds, <<>>)
        ELSE Outcome(200, [ds EXCEPT !.tiles = new],
                     [lists EXCEPT ![new] = rest_slice(tiles, count)], dicts,
                     drawn_slice(tiles, count), Len(rest_slice(tiles, count)))

\* [tile for tile in requested if tile not in container]
missing_tiles(requested, container) ==
    SelectSeq(requested, LAMBDA t : ~Contains(container, t))

RECURSIVE removal_pass(_, _)
\* the loop over the request on a copy of the container: remove(tile) for
\* each requested tile; ok is FALSE when a remove raised ValueError
removal_pass(container, requested) ==
    IF requested = <<>> THEN [ok |-> TRUE, rest |-> container]
    ELSE IF ~Contains(container, Head(requested))
         THEN [ok |-> FALSE, rest |-> container]
         ELSE removal_pass(list_remove(container, Head(requested)), Tail(requested))

\* the assignment piles[pile_name] = added_tiles_actual
pile_extend_replace(piles, pile_name, added) == dict_put(piles, pile_name, added)

\* piles[pile_name].extend(added_tiles_actual), the pile created if absent
pile_extend(piles, pile_name, added) ==
    dict_put(piles, pile_name,
             (IF pile_name \in DOMAIN piles THEN piles[pile_name] ELSE <<>>) \o added)

\* add_to_pile with the pile created before the request is validated
add_to_pile_eager(ds, pile_name, tiles_to_add) ==
    LET boneyard == lists[ds.tiles]
        piles    == dicts[ds.piles]
        missing  == missing_tiles(tiles_to_add, boneyard)
        pass     == removal_pass(boneyard, tiles_to_add)
        new      == FreshList
        made     == [dicts EXCEPT ![ds.piles] = pile_extend(piles, pile_name, <<>>)]
    IN  IF missing # <<>> THEN Outcome(400, ds, lists, made, missing, 0)
        ELSE IF ~pass.ok THEN Outcome(500, ds, lists, made, <<>>, 0)
        ELSE Outcome(200, [ds EXCEPT !.tiles = new],
                     [lists EXCEPT ![new] = pass.rest],
                     [dicts EXCEPT ![ds.piles] = pile_extend(piles, pile_name, tiles_to_add)],
                     tiles_to_add, Len(pass.rest))

add_to_pile(ds, pile_name, tiles_to_add) ==
    LET boneyard == lists[ds.tiles]
        piles    == dicts[ds.piles]
        missing  == missing_tiles(tiles_to_add, boneyard)
        pass     == removal_pass(boneyard, tiles_to_add)
        new      == FreshList
    IN  IF missing # <<>> THEN Raise(400, ds, missing)
        ELSE IF ~pass.ok THEN Raise(500, ds, <<>>)
        ELSE Outcome(200, [ds EXCEPT !.tiles = new],
                     [lists EXCEPT ![new] = pass.rest],
                     [dicts EXCEPT ![ds.piles] = pile_extend(piles, pile_name, tiles_to_add)],
                     tiles_to_add, Len(pass.rest))

\* list_pile that takes the tiles it returns out of the pile
list_pile_take(ds, pile_name) ==
    LET piles == dicts[ds.piles]
    IN  IF pile_name \notin DOMAIN piles
        THEN Raise(404, ds, <<>>)
        ELSE Outcome(200, ds, lists,
                     [dicts EXCEPT ![ds.piles] = dict_del_empty(piles, pile_name)],
                     piles[pile_name], Len(piles[pile_name]))

\* return piles[pile_name], after the 404 for a name that is not a pile
list_pile(ds, pile_name) ==
    LET piles == dicts[ds.piles]
    IN  IF pile_name \notin DOMAIN piles
        THEN Raise(404, ds, <<>>)
        ELSE Outcome(200, ds, lists, dicts, piles[pile_name], Len(piles[pile_name]))

\* create_pile without the test for an existing name
create_pile_reset(ds, pile_name) ==
    Outcome(200, ds, lists,
            [dicts EXCEPT ![ds.piles] = dict_put(dicts[ds.piles], pile_name, <<>>)],
            <<>>, 0)

\* the part of create_pile after its get_set
create_pile(ds, pile_name) ==
    LET piles == dicts[ds.piles]
    IN  IF pile_name \in DOMAIN piles
        THEN Raise(409, ds, <<>>)
        ELSE Outcome(200, ds, lists,
                     [dicts EXCEPT ![ds.piles] = dict_put(piles, pile_name, <<>>)],
                     <<>>, 0)

\* the test with len(piles[pile_name]) <= 1 for the empty pile
pile_unavailable_short(piles, pile_name) ==
    pile_name \notin DOMAIN piles \/ Len(piles[pile_name]) <= 1

\* pile_name not in piles or not piles[pile_name]
pile_unavailable(piles, pile_name) ==
    pile_name \notin DOMAIN piles \/ piles[pile_name] = <<>>

\* drawn_tile = random.choice(pile), the choice being position i
\* pile.remove(drawn_tile)
draw_from_pile(ds, pile_name, i) ==
    LET piles == dicts[ds.piles]
    IN  IF pile_unavailable(piles, pile_name)
        THEN Raise(404, ds, <<>>)
        ELSE LET pile  == piles[pile_name]
                 after == list_remove(pile, pile[i])
             IN  Outcome(200, ds, lists,
                         [dicts EXCEPT ![ds.piles] = dict_put(piles, pile_name, after)],
                         <<pile[i]>>, Len(after))

\* the returned tiles put in front of the boneyard
yard_extend_front(boneyard, returned) == returned \o boneyard

\* domino_set["tiles"].extend(returned_tiles_actual)
yard_extend(boneyard, returned) == boneyard \o returned

\* return_to_boneyard on the values: the status, and on success the pile
\* and the boneyard afterwards; on 400 the ids that are not in the pile
return_moves(boneyard, piles, pile_name, tiles_to_return) ==
    IF pile_name \notin DOMAIN piles
    THEN [status |-> 404, pile |-> <<>>, tiles |-> boneyard, ret |-> <<>>]
    ELSE LET pile    == piles[pile_name]
             missing == missing_tiles(tiles_to_return, pile)
             pass    == removal_pass(pile, tiles_to_return)
         IN  IF missing # <<>>
             THEN [status |-> 400, pile |-> pile, tiles |-> boneyard, ret |-> missing]
             ELSE IF ~pass.ok
             THEN [status |-> 500, pile |-> pile, tiles |-> boneyard, ret |-> <<>>]
             ELSE [status |-> 200, pile |-> pass.rest,
                   tiles |-> yard_extend(boneyard, tiles_to_return),
                   ret |-> tiles_to_return]

return_to_boneyard(ds, pile_name, tiles_to_return) ==
    LET piles == dicts[ds.piles]
        moves == return_moves(lists[ds.tiles], piles, pile_name, tiles_to_return)
    IN  IF moves.status # 200 THEN Raise(moves.status, ds, moves.ret)
        ELSE Outcome(200, ds,
                     [lists EXCEPT ![ds.tiles] = moves.tiles],
                     [dicts EXCEPT ![ds.piles] = dict_put(piles, pile_name, moves.pile)],
                     moves.ret, Len(moves.tiles))

\* the body of the delete_pile endpoint
delete_pile(ds, pile_name) ==
    LET piles == dicts[ds.piles]
    IN  IF pile_name \notin DOMAIN piles THEN Raise(404, ds, <<>>)
        ELSE Outcome(200, ds,
                     [lists EXCEPT ![ds.tiles] = yard_extend(lists[ds.tiles], piles[pile_name])],
                     [dicts EXCEPT ![ds.piles] = dict_del(piles, pile_name)],
                     <<>>, Len(piles[pile_name]))

\* shuffle_set with the reset of the piles done for either scope
shuffle_set_reset(ds, only_remaining, order) ==
    LET newd == FreshDict
    IN  Outcome(200, [ds EXCEPT !.piles = newd],
                [lists EXCEPT ![ds.tiles] = order],
                [dicts EXCEPT ![newd] = <<>>],
                <<>>, Len(order))

\* random.shuffle leaves the list in `order`, one of its permutations
shuffle_set(ds, only_remaining, order) ==
    IF only_remaining
    THEN Outcome(200, ds, [lists EXCEPT ![ds.tiles] = order], dicts, <<>>, Len(order))
    ELSE LET newl == FreshList
             newd == FreshDict
         IN  Outcome(200, [ds EXCEPT !.tiles = newl, !.piles = newd],
                     [lists EXCEPT ![newl] = order],
                     [dicts EXCEPT ![newd] = <<>>],
                     <<>>, Len(order))

\* the boneyard alone, whatever the scope
shuffle_input_yard(ds, only_remaining) == lists[ds.tiles]

\* what shuffle_set permutes
shuffle_input(ds, only_remaining) ==
    IF only_remaining THEN lists[ds.tiles] ELSE AllTiles(View(ds))

\* _save_set, process-local branch: the version is incremented on the
\* caller's dict and a copy of it (less set_id) replaces the stored dict
save_version(ds) == ds.version + 1

save_set(set_id, ds) ==
    [type |-> ds.type, tiles |-> ds.tiles, piles |-> ds.piles,
     version |-> save_version(ds)]

----------------------------------------------------------------------------
(* Inputs *)

\* every tile id a model set can hold
TileIds == UNION {Range(generate_tiles(t)) : t \in ModelTypes}

\* TileListRequest.tiles: min_length = 1
ListsOver(ids) == UNION {[1..k -> ids] : k \in 1..MaxReqLen}

BagOf(s) == [t \in TileIds |-> Count(s, t)]

BagPlus(b, c) == [t \in TileIds |-> b[t] + c[t]]

----------------------------------------------------------------------------
(* Access records *)

\* the assignment left undone
access_put_never(acc, set_id, t) == acc

\* last_accessed[set_id] = t
access_put(acc, set_id, t) ==
    [s \in DOMAIN acc \cup {set_id} |-> IF s = set_id THEN t ELSE acc[s]]

\* delete_set with the access entry left behind
delete_set_record(store, acc, set_id) ==
    IF set_id \notin DOMAIN store
    THEN [ok |-> FALSE, store |-> store, acc |-> acc]
    ELSE [ok |-> TRUE, store |-> [s \in DOMAIN store \ {set_id} |-> store[s]], acc |-> acc]

\* delete_set, process-local branch: False if there is no record, else the
\* record and its access entry (if any) are deleted
delete_set(store, acc, set_id) ==
    IF set_id \notin DOMAIN store
    THEN [ok |-> FALSE, store |-> store, acc |-> acc]
    ELSE [ok |-> TRUE, store |-> [s \in DOMAIN store \ {set_id} |-> store[s]],
          acc |-> [s \in DOMAIN acc \ {set_id} |-> acc[s]]]

\* the comparison current_time - last_time >= SET_EXPIRY_SECONDS
expired_set_ids_early(acc, t) == {s \in DOMAIN acc : t - acc[s] >= SET_EXPIRY_SECONDS}

\* [set_id for set_id, last_time in last_accessed.items()
\*  if current_time - last_time > SET_EXPIRY_SECONDS]
expired_set_ids(acc, t) == {s \in DOMAIN acc : t - acc[s] > SET_EXPIRY_SECONDS}

\* clean_expired_sets, process-local branch: of the expired ids those that
\* have a record lose the record and the access entry
clean_expired_sets(store, acc, t) ==
    LET gone == expired_set_ids(acc, t) \cap DOMAIN store
    IN  [store |-> [s \in DOMAIN store \ gone |-> store[s]],
         acc   |-> [s \in DOMAIN acc \ gone |-> acc[s]]]

\* get_set_summary: the type, the size of the boneyard, the size of each pile
get_set_summary(set_id, v) ==
    [set_id |-> set_id, type |-> v.type, tiles_remaining |-> Len(v.tiles),
     piles |-> [p \in DOMAIN v.piles |-> Len(v.piles[p])]]

\* what list_sets returns of the records get_all_sets would give: their
\* summaries if not USE_REDIS, and nothing otherwise
list_sets(use_redis, all_sets) ==
    IF ~use_redis
    THEN {get_set_summary(s, all_sets[s]) : s \in DOMAIN all_sets}
    ELSE {}

\* redis_client.set(key, value, ex=SET_EXPIRY_SECONDS) at time t
redis_set(keys, key, value, t) ==
    [k \in DOMAIN keys \cup {key} |->
        IF k = key THEN [value |-> value, ex |-> t + SET_EXPIRY_SECONDS] ELSE keys[k]]

\* redis_client.expire(key, SET_EXPIRY_SECONDS) at time t: a key that does
\* not exist is not created
redis_expire(keys, key, t) ==
    [k \in DOMAIN keys |->
        IF k = key THEN [keys[k] EXCEPT !.ex = t + SET_EXPIRY_SECONDS] ELSE keys[k]]

\* redis_client.delete(key)
redis_delete(keys, gone) == [k \in DOMAIN keys \ gone |-> keys[k]]

\* the keys whose lease has not run out at time t
redis_alive(keys, t) == [k \in {j \in DOMAIN keys : keys[j].ex > t} |-> keys[k]]

\* clean_expired_sets, Redis branch: for every access key whose time is
\* older than the expiry, the set key and the access key are deleted
redis_clean_expired_sets(rd, t) ==
    LET gone == {k \in DOMAIN rd.access : t - rd.access[k].value > SET_EXPIRY_SECONDS}
    IN  [rd EXCEPT !.sets = redis_delete(@, gone), !.access = redis_delete(@, gone)]

\* the websockets of the model
Chans == {"w1", "w2"}

\* a websocket no client has opened: where its handler is ("none",
\* "accepting", "open", "broken" once the client is gone, "closed"), the set
\* it asked for, what was sent to it and the code it was closed with
NoSocket == [at |-> "none", set_id |-> "", inbox |-> <<>>, code |-> 0]

\* no message.  Of an envelope the model keeps whether it is the "error"
\* of a rejection, the "connected" of a subscription or the "update" of a
\* broadcast, and for an update the number of the broadcast.
NoEnvelope == [event |-> "", id |-> 0]

\* a caller whose request is in no broadcast
NoPass == [at |-> "none", set_id |-> "", message |-> NoEnvelope, connection |-> "",
           idx |-> 0, disconnected_clients |-> <<>>, detached |-> FALSE, start |-> <<>>]

\* an empty Redis server
NoRedis == [sets |-> <<>>, access |-> <<>>, held |-> <<>>]

\* no Redis server is used and no websocket is open: USE_REDIS is false
\* and ConnectionManager.__init__ has run
Disconnected ==
    /\ redis = NoRedis
    /\ active_connections = <<>>
    /\ sockets = [w \in Chans |-> NoSocket]
    /\ passes = [r \in Reqs |-> NoPass]
    /\ envelopes = 0

\* no call of generate_tiles is under way
NoGen == [set_type |-> "", at |-> "none", i |-> 0, j |-> 0, tiles |-> <<>>]

----------------------------------------------------------------------------
(* State changes shared by the handlers *)

\* the state after a step that leaves the store as `store`, the callers'
\* dicts as `loc` and the heap as L, D
Becomes(store, loc, L, D) ==
    LET rt == Roots(store, loc, "tiles")
        rp == Roots(store, loc, "piles")
    IN  /\ domino_sets' = [s \in DOMAIN store |->
                             [store[s] EXCEPT !.tiles = Rank(rt, @), !.piles = Rank(rp, @)]]
        /\ local' = [r \in Reqs |->
                       [loc[r] EXCEPT !.tiles = Rank(rt, @), !.piles = Rank(rp, @)]]
        /\ lists' = Renumbered(L, rt)
        /\ dicts' = Renumbered(D, rp)

\* caller r ends an operation: its dict (dropped unless it keeps it), the
\* store and the heap afterwards
Settle(r, out, keeps, store, rsp) ==
    /\ Becomes(store, [local EXCEPT ![r] = IF keeps THEN out.ds ELSE NoRec],
               out.lists, out.dicts)
    /\ pc' = [pc EXCEPT ![r] = IF keeps THEN "loaded" ELSE "idle"]
    /\ resp' = rsp

\* what is recorded of an operation: its kind and the status it ended with
\* (200, or the code of the HTTPException it raised)
Brief(op, out) == [op |-> op, status |-> out.status]

\* domino_sets[set_id] = data_to_save
Stored(set_id, rec) ==
    [s \in DOMAIN domino_sets \cup {set_id} |-> IF s = set_id THEN rec ELSE domino_sets[s]]

\* DominoService._save_set(set_id, domino_set) after the operation
Persist(r, out, rsp) ==
    Settle(r, [out EXCEPT !.ds.version = save_version(out.ds)], FALSE,
           Stored(out.ds.set_id, save_set(out.ds.set_id, out.ds)), rsp)

\* the response is returned with nothing persisted by the handler
Respond(r, out, rsp) == Settle(r, out, FALSE, domino_sets, rsp)

----------------------------------------------------------------------------
(* Requests against the process-local store *)

Init ==
    /\ lists = [i \in ObjIds |-> <<>>]
    /\ dicts = [i \in ObjIds |-> <<>>]
    /\ domino_sets = <<>>
    /\ local = [r \in Reqs |-> NoRec]
    /\ pc = [r \in Reqs |-> "idle"]
    /\ resp = NoResp
    /\ created = <<>>
    /\ handed = <<>>
    /\ last_accessed = <<>>
    /\ now = 0
    /\ gen = NoGen
    /\ Disconnected

\* the tiles of one set, whatever num_sets is
new_tiles_once(set_type, num_sets) == generate_tiles(set_type)

\* generate_tiles(set_type) * num_sets
new_tiles(set_type, num_sets) == Repeat(generate_tiles(set_type), num_sets)

\* create_set: the dict stored under a new uuid: the shuffled tiles in a new
\* list, no piles, version 1
create_set(set_type) ==
    [type |-> set_type, tiles |-> FreshList, piles |-> FreshDict, version |-> 1]

\* POST /api/set/new: clean_expired_sets, then create_set (uuid4 never
\* yields an id already used)
CreateSet(set_id, set_type, num_sets) ==
    /\ set_id \notin DOMAIN created
    /\ LET swept == clean_expired_sets(domino_sets, last_accessed, now)
       IN  /\ \E order \in Permutations_of(new_tiles(set_type, num_sets)) :
                LET rec == create_set(set_type)
                IN  /\ Becomes([s \in DOMAIN swept.store \cup {set_id} |->
                                   IF s = set_id THEN rec ELSE swept.store[s]],
                               local,
                               [lists EXCEPT ![rec.tiles] = order],
                               [dicts EXCEPT ![rec.piles] = <<>>])
                    /\ created' = (set_id :> BagOf(order)) @@ created
                    /\ handed' = (set_id :> BagOf(<<>>)) @@ handed
           /\ last_accessed' = access_put(swept.acc, set_id, now)
    /\ resp' = [op |-> "create", status |-> 201]
    /\ UNCHANGED <<pc, now, gen, redis, notifier>>

\* get_set, process-local branch: 404 if absent, else a shallow copy of the
\* stored dict, to which the endpoints add the set_id
get_set(set_id) ==
    [set_id |-> set_id, type |-> domino_sets[set_id].type,
     tiles |-> domino_sets[set_id].tiles, piles |-> domino_sets[set_id].piles,
     version |-> domino_sets[set_id].version]

\* the Depends(DominoService.get_set) of an endpoint: it runs before the
\* endpoint's body, and other requests may run in between
Load(r, set_id) ==
    /\ pc[r] = "idle"
    /\ IF set_id \in DOMAIN domino_sets
       THEN /\ Becomes(domino_sets, [local EXCEPT ![r] = get_set(set_id)], lists, dicts)
            /\ pc' = [pc EXCEPT ![r] = "loaded"]
            /\ last_accessed' = access_put(last_accessed, set_id, now)
            /\ UNCHANGED resp
       ELSE /\ resp' = [op |-> "get", status |-> 404]
            /\ UNCHANGED <<lists, dicts, domino_sets, local, pc, last_accessed>>
    /\ UNCHANGED <<created, handed, now, gen, redis, notifier>>

\* POST /api/set/{set_id}/shuffle
ShuffleSet(r, only_remaining) ==
    /\ pc[r] = "loaded"
    /\ local[r].version < MaxVersion
    /\ Len(shuffle_input(local[r], only_remaining)) <= MaxYard
    /\ \E order \in Permutations_of(shuffle_input(local[r], only_remaining)) :
         LET out == shuffle_set(local[r], only_remaining, order)
         IN  Persist(r, out, Brief(IF only_remaining THEN "shuffle_remaining" ELSE "shuffle_all",
                                   out))
    /\ UNCHANGED <<created, handed, last_accessed, now, gen, redis, notifier>>

\* POST /api/set/{set_id}/draw
DrawTiles(r, count) ==
    /\ pc[r] = "loaded"
    /\ local[r].version < MaxVersion
    /\ LET out == draw_tiles(local[r], count)
           rsp == Brief("draw", out)
       IN  IF out.status = 200 THEN Persist(r, out, rsp) ELSE Respond(r, out, rsp)
    /\ UNCHANGED <<created, handed, last_accessed, now, gen, redis, notifier>>

\* POST /api/set/{set_id}/pile/new: create_pile loads the set itself
CreatePile(r, set_id, pile_name) ==
    /\ pc[r] = "idle"
    /\ set_id \in DOMAIN domino_sets
    /\ LET ds  == get_set(set_id)
           out == create_pile(ds, pile_name)
       IN  Respond(r, out, Brief("create_pile", out))
    /\ last_accessed' = access_put(last_accessed, set_id, now)
    /\ UNCHANGED <<created, handed, now, gen, redis, notifier>>

\* POST /api/set/{set_id}/pile/{pile_name}/add
AddToPile(r, pile_name, tiles) ==
    /\ pc[r] = "loaded"
    /\ pile_name \in DOMAIN dicts[local[r].piles]
         => Len(dicts[local[r].piles][pile_name]) + Len(tiles) <= MaxPile
    /\ LET out == add_to_pile(local[r], pile_name, tiles)
       IN  Respond(r, out, Brief("add", out))
    /\ UNCHANGED <<created, handed, last_accessed, now, gen, redis, notifier>>

\* GET /api/set/{set_id}/pile/{pile_name}/list
ListPile(r, pile_name) ==
    /\ pc[r] = "loaded"
    /\ LET out == list_pile(local[r], pile_name)
       IN  Respond(r, out, Brief("list", out))
    /\ UNCHANGED <<created, handed, last_accessed, now, gen, redis, notifier>>

\* GET /api/set/{set_id}/pile: the name and the size of every pile
ListAllPiles(r) ==
    /\ pc[r] = "loaded"
    /\ LET piles == dicts[local[r].piles]
           out   == Outcome(200, local[r], lists, dicts,
                            [p \in DOMAIN piles |-> Len(piles[p])], Cardinality(DOMAIN piles))
       IN  Respond(r, out, Brief("list_all", out))
    /\ UNCHANGED <<created, handed, last_accessed, now, gen, redis, notifier>>

\* GET /api/set/{set_id}: get_set and get_set_summary in the endpoint's body
GetSetState(r, set_id) ==
    /\ pc[r] = "idle"
    /\ IF set_id \in DOMAIN domino_sets
       THEN /\ last_accessed' = access_put(last_accessed, set_id, now)
            /\ resp' = [op |-> "state", status |-> 200]
       ELSE /\ resp' = [op |-> "state", status |-> 404]
            /\ UNCHANGED last_accessed
    /\ UNCHANGED <<lists, dicts, domino_sets, local, pc, created, handed, now, gen,
                   redis, notifier>>

\* the positions random.choice can pick in the named pile
Choices(ds, pile_name) ==
    IF pile_unavailable(dicts[ds.piles], pile_name)
    THEN {1} ELSE DOMAIN dicts[ds.piles][pile_name]

\* POST /api/set/{set_id}/pile/{pile_name}/draw
DrawFromPile(r, pile_name) ==
    /\ pc[r] = "loaded"
    /\ \E i \in Choices(local[r], pile_name) :
         LET out == draw_from_pile(local[r], pile_name, i)
         IN  Respond(r, out, Brief("pile_draw", out))
    /\ UNCHANGED <<created, handed, last_accessed, now, gen, redis, notifier>>

\* POST /api/set/{set_id}/pile/{pile_name}/return
ReturnToBoneyard(r, pile_name, tiles) ==
    /\ pc[r] = "loaded"
    /\ Len(lists[local[r].tiles]) + Len(tiles) <= MaxYard
    /\ LET out == return_to_boneyard(local[r], pile_name, tiles)
       IN  Respond(r, out, Brief("return", out))
    /\ UNCHANGED <<created, handed, last_accessed, now, gen, redis, notifier>>

\* DELETE /api/set/{set_id}/pile/{pile_name}
DeletePile(r, pile_name) ==
    /\ pc[r] = "loaded"
    /\ pile_name \in DOMAIN dicts[local[r].piles]
         => Len(lists[local[r].tiles]) + Len(dicts[local[r].piles][pile_name]) <= MaxYard
    /\ LET out == delete_pile(local[r], pile_name)
       IN  Respond(r, out, Brief("delete_pile", out))
    /\ UNCHANGED <<created, handed, last_accessed, now, gen, redis, notifier>>

Next ==
    \/ \E s \in SetIds, q \in RequestSets : CreateSet(s, q[1], q[2])
    \/ \E r \in Reqs, s \in SetIds : Load(r, s)
    \/ \E r \in Reqs, b \in BOOLEAN : ShuffleSet(r, b)
    \/ \E r \in Reqs, c \in 1..MaxCount : DrawTiles(r, c)
    \/ \E r \in Reqs, s \in SetIds, p \in RequestPiles : CreatePile(r, s, p)
    \/ \E r \in Reqs, p \in RequestPiles, ts \in ListsOver(RequestTiles) : AddToPile(r, p, ts)
    \/ \E r \in Reqs, p \in RequestPiles : ListPile(r, p)
    \/ \E r \in Reqs : ListAllPiles(r)
    \/ \E r \in Reqs, s \in SetIds : GetSetState(r, s)
    \/ \E r \in Reqs, p \in RequestPiles : DrawFromPile(r, p)
    \/ \E r \in Reqs, p \in RequestPiles, ts \in ListsOver(RequestTiles) : ReturnToBoneyard(r, p, ts)
    \/ \E r \in Reqs, p \in RequestPiles : DeletePile(r, p)

Spec == Init /\ [][Next]_vars

----------------------------------------------------------------------------
(* The engine run directly on one record, as the unit tests run it: the    *)
(* caller holds the dict create_set returned, which is the stored dict     *)
(* itself, and applies the operations to it one after the other.           *)

TheSet == SetOrder[1]

\* The record is the one create_set made; of a set of more than MaxHeld
\* tiles the first d have been handed out already and MaxHeld are left.
InitEngine ==
    \E q \in EngineSets : \E order \in Permutations_of(new_tiles(q[1], q[2])) :
      \E d \in 0..Len(order) :
        /\ Len(order) - d <= MaxHeld
        /\ d > 0 => Len(order) - d = MaxHeld
        /\ lists = [i \in ObjIds |-> IF i = 1 THEN SubSeq(order, d + 1, Len(order)) ELSE <<>>]
        /\ dicts = [i \in ObjIds |-> <<>>]
        /\ domino_sets = (TheSet :> [type |-> q[1], tiles |-> 1, piles |-> 1, version |-> 1])
        /\ local = [r \in Reqs |-> IF r = Caller
                                   THEN [set_id |-> TheSet, type |-> q[1], tiles |-> 1,
                                         piles |-> 1, version |-> 1]
                                   ELSE NoRec]
        /\ pc = [r \in Reqs |-> IF r = Caller THEN "loaded" ELSE "idle"]
        /\ resp = [op |-> "create", status |-> 201]
        /\ created = (TheSet :> BagOf(order))
        /\ handed = (TheSet :> BagOf(SubSeq(order, 1, d)))
        /\ last_accessed = (TheSet :> 0)
        /\ now = 0
        /\ gen = NoGen
        /\ Disconnected

\* the caller's dict is the stored dict: an assignment to one of its keys
\* is an assignment to the stored record.  The record's list and dict are
\* the only live objects, and keep the names Becomes would give them.
\* create_pile is the one operation that calls get_set, which records the
\* access.
Applied(out, rsp) ==
    /\ lists' = [i \in ObjIds |-> IF i = 1 THEN out.lists[out.ds.tiles] ELSE <<>>]
    /\ dicts' = [i \in ObjIds |-> IF i = 1 THEN out.dicts[out.ds.piles] ELSE <<>>]
    /\ resp' = rsp
    /\ handed' = [handed EXCEPT ![TheSet] =
                    IF rsp.op \in {"draw", "pile_draw"} /\ rsp.status = 200
                    THEN BagPlus(@, BagOf(out.ret)) ELSE @]
    /\ last_accessed' = IF rsp.op = "create_pile"
                        THEN access_put(last_accessed, TheSet, now) ELSE last_accessed
    /\ UNCHANGED <<domino_sets, local, pc, created, now, gen, redis, notifier>>

EngShuffle(only_remaining) ==
    /\ pc[Caller] = "loaded"
    /\ \E order \in Permutations_of(shuffle_input(local[Caller], only_remaining)) :
           LET out == shuffle_set(local[Caller], only_remaining, order)
           IN  Applied(out, Brief(IF only_remaining THEN "shuffle_remaining" ELSE "shuffle_all",
                                   out))

EngDraw(count) ==
    /\ pc[Caller] = "loaded"
    /\ LET out == draw_tiles(local[Caller], count)
       IN  Applied(out, Brief("draw", out))

EngCreatePile(pile_name) ==
    /\ pc[Caller] = "loaded"
    /\ LET out == create_pile(get_set(TheSet), pile_name)
       IN  Applied(out, Brief("create_pile", out))

EngAdd(pile_name, tiles) ==
    /\ pc[Caller] = "loaded"
    /\ LET out == add_to_pile(local[Caller], pile_name, tiles)
       IN  Applied(out, Brief("add", out))

EngList(pile_name) ==
    /\ pc[Caller] = "loaded"
    /\ LET out == list_pile(local[Caller], pile_name)
       IN  Applied(out, Brief("list", out))

EngPileDraw(pile_name) ==
    /\ pc[Caller] = "loaded"
    /\ \E i \in Choices(local[Caller], pile_name) :
           LET out == draw_from_pile(local[Caller], pile_name, i)
           IN  Applied(out, Brief("pile_draw", out))

EngReturn(pile_name, tiles) ==
    /\ pc[Caller] = "loaded"
    /\ LET out == return_to_boneyard(local[Caller], pile_name, tiles)
       IN  Applied(out, Brief("return", out))

EngDeletePile(pile_name) ==
    /\ pc[Caller] = "loaded"
    /\ LET out == delete_pile(local[Caller], pile_name)
       IN  Applied(out, Brief("delete_pile", out))

NextEngine ==
    \/ \E b \in BOOLEAN : EngShuffle(b)
    \/ \E c \in 1..MaxCount : EngDraw(c)
    \/ \E p \in PileNames : EngCreatePile(p)
    \/ \E p \in PileNames, ts \in ListsOver(RequestTiles) : EngAdd(p, ts)
    \/ \E p \in PileNames : EngList(p)
    \/ \E p \in PileNames : EngPileDraw(p)
    \/ \E p \in PileNames, ts \in ListsOver(RequestTiles) : EngReturn(p, ts)
    \/ \E p \in PileNames : EngDeletePile(p)

SpecEngine == InitEngine /\ [][NextEngine]_vars

----------------------------------------------------------------------------
(* The store's operations called directly, one after the other, by callers *)
(* that keep the dict they were given, while time passes.                  *)

\* domino_set = DominoService.get_set(set_id)
GetSet(r, set_id) ==
    /\ IF set_id \in DOMAIN domino_sets
       THEN /\ Becomes(domino_sets, [local EXCEPT ![r] = get_set(set_id)], lists, dicts)
            /\ pc' = [pc EXCEPT ![r] = "loaded"]
            /\ last_accessed' = access_put(last_accessed, set_id, now)
            /\ resp' = [op |-> "get", status |-> 200]
       ELSE /\ resp' = [op |-> "get", status |-> 404]
            /\ UNCHANGED <<lists, dicts, domino_sets, local, pc, last_accessed>>
    /\ UNCHANGED <<created, handed, now, gen, redis, notifier>>

\* DominoService._save_set(domino_set["set_id"], domino_set): the caller's
\* dict gets the new version and stays with the caller
SaveSet(r) ==
    /\ pc[r] = "loaded"
    /\ local[r].version < MaxVersion
    /\ LET ds == [local[r] EXCEPT !.version = save_version(local[r])]
       IN  Settle(r, Outcome(200, ds, lists, dicts, <<>>, 0), TRUE,
                  Stored(ds.set_id, save_set(ds.set_id, local[r])),
                  [op |-> "save", status |-> 200])
    /\ UNCHANGED <<created, handed, last_accessed, now, gen, redis, notifier>>

\* DominoService.delete_set(set_id); the status is the bool it returns
DeleteSet(set_id) ==
    /\ LET d == delete_set(domino_sets, last_accessed, set_id)
       IN  /\ Becomes(d.store, local, lists, dicts)
           /\ last_accessed' = d.acc
           /\ resp' = [op |-> "delete_set", status |-> IF d.ok THEN 1 ELSE 0]
    /\ UNCHANGED <<pc, created, handed, now, gen, redis, notifier>>

\* DominoService.clean_expired_sets()
Sweep ==
    /\ LET swept == clean_expired_sets(domino_sets, last_accessed, now)
       IN  /\ Becomes(swept.store, local, lists, dicts)
           /\ last_accessed' = swept.acc
    /\ resp' = [op |-> "sweep", status |-> 200]
    /\ UNCHANGED <<pc, created, handed, now, gen, redis, notifier>>

\* get_all_sets, process-local branch: a copy of every stored dict
get_all_sets ==
    [s \in DOMAIN domino_sets |->
        [set_id |-> s, type |-> domino_sets[s].type,
         tiles |-> lists[domino_sets[s].tiles], piles |-> dicts[domino_sets[s].piles]]]

\* GET /api/set: clean_expired_sets, then the summaries of get_all_sets
ListSets ==
    /\ LET swept == clean_expired_sets(domino_sets, last_accessed, now)
       IN  /\ Becomes(swept.store, local, lists, dicts)
           /\ last_accessed' = swept.acc
    /\ resp' = [op |-> "list_sets", status |-> 200]
    /\ UNCHANGED <<pc, created, handed, now, gen, redis, notifier>>

\* time passes
Tick ==
    /\ now < MaxTime
    /\ now' = now + 1
    /\ UNCHANGED <<lists, dicts, domino_sets, local, pc, resp, created, handed,
                   last_accessed, gen, redis, notifier>>

NextStore ==
    \/ \E s \in SetIds, q \in StoreSets : CreateSet(s, q[1], q[2])
    \/ \E r \in Reqs, s \in SetIds : GetSet(r, s)
    \/ \E r \in Reqs : SaveSet(r)
    \/ \E s \in SetIds : DeleteSet(s)
    \/ Sweep
    \/ ListSets
    \/ Tick

SpecStore == Init /\ [][NextStore]_vars

----------------------------------------------------------------------------
(* The store with USE_REDIS true: the Redis branches of the store's        *)
(* operations and of the two entry points that sweep, while time passes    *)
(* and leases run out.  A record is kept as the value json.dumps wrote: a  *)
(* caller gets its own copy.                                               *)

\* what json.dumps writes of a new record, and json.loads reads
redis_record(set_type, tiles, piles, version) ==
    [type |-> set_type, tiles |-> tiles, piles |-> piles, version |-> version]

\* POST /api/set/new: clean_expired_sets (an exception of which is logged
\* and dropped), then create_set
RedisCreateSet(set_id, set_type, num_sets, sweep_raises) ==
    /\ set_id \notin DOMAIN created
    /\ \E order \in Permutations_of(new_tiles(set_type, num_sets)) :
         LET swept == IF sweep_raises THEN redis ELSE redis_clean_expired_sets(redis, now)
         IN  /\ redis' = [swept EXCEPT
                            !.sets = redis_set(@, set_id,
                                               redis_record(set_type, order, <<>>, 1), now),
                            !.access = redis_set(@, set_id, now, now)]
             /\ created' = (set_id :> BagOf(order)) @@ created
             /\ handed' = (set_id :> BagOf(<<>>)) @@ handed
    /\ resp' = [op |-> "create", status |-> 201]
    /\ UNCHANGED <<lists, dicts, domino_sets, local, pc, last_accessed, now, gen, notifier>>

\* domino_set = DominoService.get_set(set_id): 404 if the set key is gone,
\* else the access key is set anew and the caller gets the decoded record
RedisGetSet(r, set_id) ==
    /\ IF set_id \in DOMAIN redis.sets
       THEN /\ redis' = [redis EXCEPT
                           !.access = redis_set(@, set_id, now, now),
                           !.held = (r :> [set_id |-> set_id,
                                           data |-> redis.sets[set_id].value]) @@ @]
            /\ resp' = [op |-> "get", status |-> 200]
       ELSE /\ resp' = [op |-> "get", status |-> 404]
            /\ UNCHANGED redis
    /\ UNCHANGED <<lists, dicts, domino_sets, local, pc, created, handed,
                   last_accessed, now, gen, notifier>>

\* DominoService._save_set(domino_set["set_id"], domino_set): the version is
\* incremented, the set key written with a new lease, the lease of the access
\* key renewed
RedisSaveSet(r) ==
    /\ r \in DOMAIN redis.held
    /\ redis.held[r].data.version < MaxVersion
    /\ LET set_id == redis.held[r].set_id
           data   == [redis.held[r].data EXCEPT !.version = @ + 1]
       IN  redis' = [redis EXCEPT
                       !.held[r].data = data,
                       !.sets = redis_set(@, set_id, data, now),
                       !.access = redis_expire(@, set_id, now)]
    /\ resp' = [op |-> "save", status |-> 200]
    /\ UNCHANGED <<lists, dicts, domino_sets, local, pc, created, handed,
                   last_accessed, now, gen, notifier>>

\* GET /api/set: clean_expired_sets, an exception of which ends the request
\* with 500; the listing is built only if not USE_REDIS
RedisListSets(sweep_raises) ==
    /\ IF sweep_raises
       THEN /\ resp' = [op |-> "list_sets", status |-> 500]
            /\ UNCHANGED redis
       ELSE /\ resp' = [op |-> "list_sets", status |-> 200]
            /\ redis' = redis_clean_expired_sets(redis, now)
    /\ UNCHANGED <<lists, dicts, domino_sets, local, pc, created, handed,
                   last_accessed, now, gen, notifier>>

\* time passes; the keys whose lease has run out are gone
RedisTick ==
    /\ now < MaxTime
    /\ now' = now + 1
    /\ redis' = [redis EXCEPT !.sets = redis_alive(@, now + 1),
                              !.access = redis_alive(@, now + 1)]
    /\ UNCHANGED <<lists, dicts, domino_sets, local, pc, resp, created, handed,
                   last_accessed, gen, notifier>>

NextRedis ==
    \/ \E s \in SetIds, q \in StoreSets, f \in BOOLEAN : RedisCreateSet(s, q[1], q[2], f)
    \/ \E r \in Reqs, s \in SetIds : RedisGetSet(r, s)
    \/ \E r \in Reqs : RedisSaveSet(r)
    \/ \E f \in BOOLEAN : RedisListSets(f)
    \/ RedisTick

SpecRedis == Init /\ [][NextRedis]_vars

----------------------------------------------------------------------------
(* Both backends side by side: every request is served once with USE_REDIS *)
(* false, by the process-local store, and once with USE_REDIS true, by the *)
(* Redis server, one request after the other and while no time passes.     *)
(* random.shuffle and random.choice yield the same on both sides whenever  *)
(* they are given the same list.                                           *)

\* what a request leaves under Redis: its status and the decoded dict
Decoded(code, data) == [status |-> code, data |-> data]

\* shuffle_set on the dict json.loads returned
redis_shuffle_set(v, only_remaining, order) ==
    Decoded(200, IF only_remaining THEN [v EXCEPT !.tiles = order]
                 ELSE [v EXCEPT !.tiles = order, !.piles = <<>>])

\* what shuffle_set permutes of the decoded dict
redis_shuffle_input(v, only_remaining) == IF only_remaining THEN v.tiles ELSE AllTiles(v)

\* draw_tiles on the decoded dict
redis_draw_tiles(v, count) ==
    IF draw_too_many(v.tiles, count) THEN Decoded(409, v)
    ELSE Decoded(200, [v EXCEPT !.tiles = rest_slice(@, count)])

\* create_pile on the decoded dict
redis_create_pile(v, pile_name) ==
    IF pile_name \in DOMAIN v.piles THEN Decoded(409, v)
    ELSE Decoded(200, [v EXCEPT !.piles = dict_put(@, pile_name, <<>>)])

\* add_to_pile on the decoded dict
redis_add_to_pile(v, pile_name, tiles_to_add) ==
    LET pass == removal_pass(v.tiles, tiles_to_add)
    IN  IF missing_tiles(tiles_to_add, v.tiles) # <<>> THEN Decoded(400, v)
        ELSE IF ~pass.ok THEN Decoded(500, v)
        ELSE Decoded(200, [v EXCEPT !.tiles = pass.rest,
                                    !.piles = pile_extend(@, pile_name, tiles_to_add)])

\* draw_from_pile on the decoded dict, random.choice being position i
redis_draw_from_pile(v, pile_name, i) ==
    IF pile_unavailable(v.piles, pile_name) THEN Decoded(404, v)
    ELSE Decoded(200, [v EXCEPT !.piles =
                          dict_put(@, pile_name,
                                   list_remove(v.piles[pile_name], v.piles[pile_name][i]))])

\* return_to_boneyard on the decoded dict
redis_return_to_boneyard(v, pile_name, tiles_to_return) ==
    LET moves == return_moves(v.tiles, v.piles, pile_name, tiles_to_return)
    IN  IF moves.status # 200 THEN Decoded(moves.status, v)
        ELSE Decoded(200, [v EXCEPT !.tiles = moves.tiles,
                                    !.piles = dict_put(@, pile_name, moves.pile)])

\* the body of the delete_pile endpoint on the decoded dict
redis_delete_pile(v, pile_name) ==
    IF pile_name \notin DOMAIN v.piles THEN Decoded(404, v)
    ELSE Decoded(200, [v EXCEPT !.tiles = yard_extend(@, v.piles[pile_name]),
                                !.piles = dict_del(@, pile_name)])

\* _save_set, Redis branch, on the server rd and the caller's dict
redis_save_set(rd, set_id, data, t) ==
    LET saved == [data EXCEPT !.version = @ + 1]
    IN  [rd |-> [rd EXCEPT !.sets = redis_set(@, set_id, saved, t),
                           !.access = redis_expire(@, set_id, t)],
         data |-> saved]

\* the calls of _save_set a successful request makes under Redis: one by
\* the operation, and for shuffle and draw one more by the endpoint
redis_saves ==
    [shuffle_remaining |-> 2, shuffle_all |-> 2, draw |-> 2, create_pile |-> 1,
     add |-> 1, pile_draw |-> 1, return |-> 1, delete_pile |-> 1]

\* a request under Redis: get_set writes the access key, the operation runs
\* on the decoded dict, and if it did not raise the dict is saved
redis_request(rd, set_id, op, out, t) ==
    LET got   == [rd EXCEPT !.access = redis_set(@, set_id, t, t)]
        once  == redis_save_set(got, set_id, out.data, t)
        twice == redis_save_set(once.rd, set_id, once.data, t)
    IN  IF out.status # 200 THEN got
        ELSE IF redis_saves[op] = 2 THEN twice.rd ELSE once.rd

\* the decoded dict of the set under Redis
redis_get_set(set_id) == redis.sets[set_id].value

\* the set is stored on both sides and the caller is between two requests
Served ==
    /\ pc[Caller] = "idle"
    /\ TheSet \in DOMAIN domino_sets
    /\ TheSet \in DOMAIN redis.sets
    /\ redis_get_set(TheSet).version + 2 <= MaxRedisVersion

\* the request ends on both sides: `op` with outcome `out` on the
\* process-local side, `rout` under Redis
Both(op, out, keep, rout) ==
    /\ IF keep THEN Persist(Caller, out, Brief(op, out))
       ELSE Respond(Caller, out, Brief(op, out))
    /\ last_accessed' = access_put(last_accessed, TheSet, now)
    /\ redis' = redis_request(redis, TheSet, op, rout, now)
    /\ UNCHANGED <<created, handed, now, gen, notifier>>

\* POST /api/set/new
BothCreateSet(set_type, num_sets) ==
    /\ TheSet \notin DOMAIN created
    /\ \E order \in Permutations_of(new_tiles(set_type, num_sets)) :
         LET swept == clean_expired_sets(domino_sets, last_accessed, now)
             rec   == create_set(set_type)
             rd    == redis_clean_expired_sets(redis, now)
         IN  /\ Becomes([s \in DOMAIN swept.store \cup {TheSet} |->
                            IF s = TheSet THEN rec ELSE swept.store[s]],
                        local,
                        [lists EXCEPT ![rec.tiles] = order],
                        [dicts EXCEPT ![rec.piles] = <<>>])
             /\ last_accessed' = access_put(swept.acc, TheSet, now)
             /\ redis' = [rd EXCEPT
                            !.sets = redis_set(@, TheSet,
                                               redis_record(set_type, order, <<>>, 1), now),
                            !.access = redis_set(@, TheSet, now, now)]
             /\ created' = (TheSet :> BagOf(order)) @@ created
             /\ handed' = (TheSet :> BagOf(<<>>)) @@ handed
    /\ resp' = [op |-> "create", status |-> 201]
    /\ UNCHANGED <<pc, now, gen, notifier>>

\* POST /api/set/{set_id}/shuffle
BothShuffleSet(only_remaining) ==
    /\ Served
    /\ domino_sets[TheSet].version < MaxVersion
    /\ LET ds == get_set(TheSet)
           v  == redis_get_set(TheSet)
           op == IF only_remaining THEN "shuffle_remaining" ELSE "shuffle_all"
       IN  /\ Len(shuffle_input(ds, only_remaining)) <= MaxYard
           /\ \E order \in Permutations_of(shuffle_input(ds, only_remaining)) :
                \E rorder \in Permutations_of(redis_shuffle_input(v, only_remaining)) :
                  /\ shuffle_input(ds, only_remaining) = redis_shuffle_input(v, only_remaining)
                        => order = rorder
                  /\ Both(op, shuffle_set(ds, only_remaining, order), TRUE,
                          redis_shuffle_set(v, only_remaining, rorder))

\* POST /api/set/{set_id}/draw
BothDrawTiles(count) ==
    /\ Served
    /\ domino_sets[TheSet].version < MaxVersion
    /\ LET out == draw_tiles(get_set(TheSet), count)
       IN  Both("draw", out, out.status = 200,
                redis_draw_tiles(redis_get_set(TheSet), count))

\* POST /api/set/{set_id}/pile/new
BothCreatePile(pile_name) ==
    /\ Served
    /\ Both("create_pile", create_pile(get_set(TheSet), pile_name), FALSE,
            redis_create_pile(redis_get_set(TheSet), pile_name))

\* POST /api/set/{set_id}/pile/{pile_name}/add
BothAddToPile(pile_name, tiles) ==
    /\ Served
    /\ pile_name \in DOMAIN dicts[domino_sets[TheSet].piles]
         => Len(dicts[domino_sets[TheSet].piles][pile_name]) + Len(tiles) <= MaxPile
    /\ Both("add", add_to_pile(get_set(TheSet), pile_name, tiles), FALSE,
            redis_add_to_pile(redis_get_set(TheSet), pile_name, tiles))

\* POST /api/set/{set_id}/pile/{pile_name}/draw
BothDrawFromPile(pile_name) ==
    /\ Served
    /\ LET ds == get_set(TheSet)
           v  == redis_get_set(TheSet)
       IN  \E i \in Choices(ds, pile_name) :
             \E j \in (IF pile_unavailable(v.piles, pile_name)
                       THEN {1} ELSE DOMAIN v.piles[pile_name]) :
               /\ dicts[ds.piles] = v.piles => i = j
               /\ Both("pile_draw", draw_from_pile(ds, pile_name, i), FALSE,
                       redis_draw_from_pile(v, pile_name, j))

\* POST /api/set/{set_id}/pile/{pile_name}/return
BothReturnToBoneyard(pile_name, tiles) ==
    /\ Served
    /\ Len(lists[domino_sets[TheSet].tiles]) + Len(tiles) <= MaxYard
    /\ Both("return", return_to_boneyard(get_set(TheSet), pile_name, tiles), FALSE,
            redis_return_to_boneyard(redis_get_set(TheSet), pile_name, tiles))

\* DELETE /api/set/{set_id}/pile/{pile_name}
BothDeletePile(pile_name) ==
    /\ Served
    /\ pile_name \in DOMAIN dicts[domino_sets[TheSet].piles]
         => Len(lists[domino_sets[TheSet].tiles])
              + Len(dicts[domino_sets[TheSet].piles][pile_name]) <= MaxYard
    /\ Both("delete_pile", delete_pile(get_set(TheSet), pile_name), FALSE,
            redis_delete_pile(redis_get_set(TheSet), pile_name))

NextBackends ==
    \/ \E q \in StoreSets : BothCreateSet(q[1], q[2])
    \/ \E b \in BOOLEAN : BothShuffleSet(b)
    \/ \E c \in 1..MaxCount : BothDrawTiles(c)
    \/ \E p \in RequestPiles : BothCreatePile(p)
    \/ \E p \in RequestPiles, ts \in ListsOver(RequestTiles) : BothAddToPile(p, ts)
    \/ \E p \in RequestPiles : BothDrawFromPile(p)
    \/ \E p \in RequestPiles, ts \in ListsOver(RequestTiles) : BothReturnToBoneyard(p, ts)
    \/ \E p \in RequestPiles : BothDeletePile(p)

SpecBackends == Init /\ [][NextBackends]_vars

----------------------------------------------------------------------------
(* The subscribers: websocket_endpoint, ConnectionManager and the          *)
(* broadcast a request ends with.  The requests are served by the          *)
(* process-local store, each load with its endpoint body in one step; an   *)
(* `await connection.send_text` is where a broadcast is suspended, and     *)
(* other requests and websocket handlers run in between.                   *)

\* the event a successful request broadcasts; create_pile broadcasts none
broadcast_event ==
    [shuffle_remaining |-> "shuffle", shuffle_all |-> "shuffle", draw |-> "draw",
     create_pile |-> "", add |-> "pile_add", pile_draw |-> "pile_draw",
     return |-> "pile_return", delete_pile |-> "pile_delete",
     delete_set |-> "set_deleted"]

\* disconnect that drops the whole entry of the set
disconnect_entry(conns, websocket, set_id) ==
    [k \in DOMAIN conns \ {set_id} |-> conns[k]]

\* disconnect without its second test: the list of the set is left in the
\* registry when its last websocket is removed
disconnect_keep_empty(conns, websocket, set_id) ==
    IF set_id \notin DOMAIN conns THEN conns
    ELSE [conns EXCEPT ![set_id] =
            IF Contains(conns[set_id], websocket)
            THEN list_remove(conns[set_id], websocket) ELSE conns[set_id]]

\* ConnectionManager.disconnect: the websocket removed from the list of the
\* set, and the entry deleted once the list is empty
disconnect(conns, websocket, set_id) ==
    IF set_id \notin DOMAIN conns THEN conns
    ELSE LET rest == IF Contains(conns[set_id], websocket)
                     THEN list_remove(conns[set_id], websocket) ELSE conns[set_id]
         IN  IF rest = <<>> THEN [k \in DOMAIN conns \ {set_id} |-> conns[k]]
             ELSE [conns EXCEPT ![set_id] = rest]

RECURSIVE prune(_, _, _)
\* for client in disconnected_clients: self.disconnect(client, set_id)
prune(conns, disconnected_clients, set_id) ==
    IF disconnected_clients = <<>> THEN conns
    ELSE prune(disconnect(conns, Head(disconnected_clients), set_id),
               Tail(disconnected_clients), set_id)

\* ConnectionManager.connect after the accept: the list created if absent,
\* the websocket appended
connect(conns, websocket, set_id) ==
    [k \in DOMAIN conns \cup {set_id} |->
        IF k = set_id
        THEN Append(IF set_id \in DOMAIN conns THEN conns[set_id] ELSE <<>>, websocket)
        ELSE conns[k]]

\* a `del self.active_connections[set_id]` leaves the broadcasts under way
\* for the set with the list object they iterate, which is empty and in no
\* entry any more
detach(ps, before, after) ==
    [r \in Reqs |->
        IF ps[r].at = "send" /\ ps[r].set_id \in DOMAIN before
                             /\ ps[r].set_id \notin DOMAIN after
        THEN [ps[r] EXCEPT !.detached = TRUE] ELSE ps[r]]

\* the list a broadcast iterates
iterated(p) == IF p.detached THEN <<>> ELSE active_connections[p.set_id]

\* the handler of a rejected websocket has ended: accept, one error
\* envelope, close(code=1008)
websocket_reject_silent(set_id) ==
    [at |-> "closed", set_id |-> set_id, inbox |-> <<>>, code |-> 1008]

websocket_reject(set_id) ==
    [at |-> "closed", set_id |-> set_id,
     inbox |-> <<[event |-> "error", id |-> 0]>>, code |-> 1008]

\* a client opens /ws/set/{set_id}: the handler runs up to its first await
WsOpen(w, set_id) ==
    /\ sockets[w].at = "none"
    /\ IF set_id \notin DOMAIN domino_sets
       THEN /\ sockets' = [sockets EXCEPT ![w] = websocket_reject(set_id)]
            /\ resp' = [op |-> "websocket", status |-> 1008]
       ELSE /\ sockets' = [sockets EXCEPT ![w].at = "accepting", ![w].set_id = set_id]
            /\ resp' = [op |-> "websocket", status |-> 0]
    /\ UNCHANGED <<lists, dicts, domino_sets, local, pc, created, handed, last_accessed,
                   now, gen, redis, active_connections, passes, envelopes>>

\* the accept is done: connect appends the websocket, then get_set and the
\* "connected" envelope; if the set is gone by now get_set raises, and the
\* handler disconnects and closes with 1011
WsConnect(w) ==
    /\ sockets[w].at = "accepting"
    /\ LET set_id == sockets[w].set_id
           joined == connect(active_connections, w, set_id)
           left   == disconnect(joined, w, set_id)
       IN  IF set_id \in DOMAIN domino_sets
           THEN /\ active_connections' = joined
                /\ last_accessed' = access_put(last_accessed, set_id, now)
                /\ sockets' = [sockets EXCEPT
                                 ![w].at = "open",
                                 ![w].inbox = Append(@, [event |-> "connected", id |-> 0])]
                /\ passes' = passes
                /\ resp' = [op |-> "websocket", status |-> 200]
           ELSE /\ active_connections' = left
                /\ last_accessed' = last_accessed
                /\ sockets' = [sockets EXCEPT ![w].at = "closed", ![w].code = 1011]
                /\ passes' = detach(passes, active_connections, left)
                /\ resp' = [op |-> "websocket", status |-> 1011]
    /\ UNCHANGED <<lists, dicts, domino_sets, local, pc, created, handed,
                   now, gen, redis, envelopes>>

\* the client goes away: from now on a send to the websocket raises
ClientClose(w) ==
    /\ sockets[w].at = "open"
    /\ sockets' = [sockets EXCEPT ![w].at = "broken"]
    /\ UNCHANGED <<lists, dicts, domino_sets, local, pc, resp, created, handed,
                   last_accessed, now, gen, redis, active_connections, passes, envelopes>>

\* receive_text raises WebSocketDisconnect in the handler of the websocket:
\* connection_manager.disconnect(websocket, set_id)
WsDisconnect(w) ==
    /\ sockets[w].at = "broken"
    /\ LET left == disconnect(active_connections, w, sockets[w].set_id)
       IN  /\ active_connections' = left
           /\ passes' = detach(passes, active_connections, left)
    /\ sockets' = [sockets EXCEPT ![w].at = "closed", ![w].code = 1000]
    /\ UNCHANGED <<lists, dicts, domino_sets, local, pc, resp, created, handed,
                   last_accessed, now, gen, redis, envelopes>>

\* broadcast_set_update(set_id, event, ...) of caller r with the store as
\* `store`: nothing unless the set is stored; connection_manager.broadcast
\* returns at once unless the set has an entry, else it runs up to its
\* first send
Broadcasts(op, code, store) ==
    /\ code = 200
    /\ broadcast_event[op] # ""
    /\ TheSet \in DOMAIN store
    /\ TheSet \in DOMAIN active_connections

broadcast_set_update(r, op, code, store) ==
    IF Broadcasts(op, code, store)
    THEN /\ envelopes < MaxEnvelopes
         /\ envelopes' = envelopes + 1
         /\ passes' = [passes EXCEPT ![r] =
                         [at |-> "send", set_id |-> TheSet,
                          message |-> [event |-> "update", id |-> envelopes + 1],
                          connection |-> active_connections[TheSet][1], idx |-> 1,
                          disconnected_clients |-> <<>>, detached |-> FALSE,
                          start |-> active_connections[TheSet]]]
         /\ UNCHANGED <<active_connections, sockets>>
    ELSE UNCHANGED notifier

\* caller r is between two requests and the set is stored
Ready(r) ==
    /\ pc[r] = "idle"
    /\ passes[r].at = "none"
    /\ TheSet \in DOMAIN domino_sets

\* the request of caller r: the load, the operation with outcome `out`,
\* the save if the endpoint makes one, then the broadcast
Notified(r, op, out, keep) ==
    /\ IF keep THEN Persist(r, out, Brief(op, out)) ELSE Respond(r, out, Brief(op, out))
    /\ last_accessed' = access_put(last_accessed, TheSet, now)
    /\ broadcast_set_update(r, op, out.status, domino_sets)
    /\ UNCHANGED <<created, handed, now, gen, redis>>

\* POST /api/set/new
NotifyCreateSet(set_type, num_sets) ==
    /\ CreateSet(TheSet, set_type, num_sets)

\* POST /api/set/{set_id}/shuffle
NotifyShuffleSet(r, only_remaining) ==
    /\ Ready(r)
    /\ domino_sets[TheSet].version < MaxVersion
    /\ LET ds == get_set(TheSet)
       IN  /\ Len(shuffle_input(ds, only_remaining)) <= MaxYard
           /\ \E order \in Permutations_of(shuffle_input(ds, only_remaining)) :
                Notified(r, IF only_remaining THEN "shuffle_remaining" ELSE "shuffle_all",
                         shuffle_set(ds, only_remaining, order), TRUE)

\* POST /api/set/{set_id}/draw
NotifyDrawTiles(r, count) ==
    /\ Ready(r)
    /\ domino_sets[TheSet].version < MaxVersion
    /\ LET out == draw_tiles(get_set(TheSet), count)
       IN  Notified(r, "draw", out, out.status = 200)

\* POST /api/set/{set_id}/pile/new
NotifyCreatePile(r, pile_name) ==
    /\ Ready(r)
    /\ Notified(r, "create_pile", create_pile(get_set(TheSet), pile_name), FALSE)

\* POST /api/set/{set_id}/pile/{pile_name}/add
NotifyAddToPile(r, pile_name, tiles) ==
    /\ Ready(r)
    /\ pile_name \in DOMAIN dicts[domino_sets[TheSet].piles]
         => Len(dicts[domino_sets[TheSet].piles][pile_name]) + Len(tiles) <= MaxPile
    /\ Notified(r, "add", add_to_pile(get_set(TheSet), pile_name, tiles), FALSE)

\* POST /api/set/{set_id}/pile/{pile_name}/draw
NotifyDrawFromPile(r, pile_name) ==
    /\ Ready(r)
    /\ \E i \in Choices(get_set(TheSet), pile_name) :
         Notified(r, "pile_draw", draw_from_pile(get_set(TheSet), pile_name, i), FALSE)

\* POST /api/set/{set_id}/pile/{pile_name}/return
NotifyReturnToBoneyard(r, pile_name, tiles) ==
    /\ Ready(r)
    /\ Len(lists[domino_sets[TheSet].tiles]) + Len(tiles) <= MaxYard
    /\ Notified(r, "return", return_to_boneyard(get_set(TheSet), pile_name, tiles), FALSE)

\* DELETE /api/set/{set_id}/pile/{pile_name}
NotifyDeletePile(r, pile_name) ==
    /\ Ready(r)
    /\ pile_name \in DOMAIN dicts[domino_sets[TheSet].piles]
         => Len(lists[domino_sets[TheSet].tiles])
              + Len(dicts[domino_sets[TheSet].piles][pile_name]) <= MaxYard
    /\ Notified(r, "delete_pile", delete_pile(get_set(TheSet), pile_name), FALSE)

\* DELETE /api/set/{set_id}: get_set, delete_set, then the broadcast of
\* "set_deleted", which finds the set gone
NotifyDeleteSet(r) ==
    /\ Ready(r)
    /\ LET d == delete_set(domino_sets, access_put(last_accessed, TheSet, now), TheSet)
       IN  /\ Becomes(d.store, local, lists, dicts)
           /\ last_accessed' = d.acc
           /\ broadcast_set_update(r, "delete_set", 200, d.store)
    /\ resp' = [op |-> "delete_set", status |-> 204]
    /\ UNCHANGED <<pc, created, handed, now, gen, redis>>

\* the send the broadcast of caller r is suspended in returns or raises;
\* the loop goes on with the next websocket of the list, or is over, and
\* then the websockets whose send raised are disconnected
SendDone(r) ==
    /\ passes[r].at = "send"
    /\ LET p      == passes[r]
           w      == p.connection
           sent   == sockets[w].at = "open"
           failed == IF sent THEN p.disconnected_clients
                     ELSE Append(p.disconnected_clients, w)
           pruned == prune(active_connections, failed, p.set_id)
       IN  /\ sockets' = IF sent THEN [sockets EXCEPT ![w].inbox = Append(@, p.message)]
                         ELSE sockets
           /\ IF p.idx < Len(iterated(p))
              THEN /\ passes' = [passes EXCEPT ![r] =
                                   [p EXCEPT !.connection = iterated(p)[p.idx + 1],
                                             !.idx = p.idx + 1,
                                             !.disconnected_clients = failed]]
                   /\ UNCHANGED active_connections
              ELSE /\ active_connections' = pruned
                   /\ passes' = detach([passes EXCEPT ![r] = NoPass],
                                       active_connections, pruned)
    /\ UNCHANGED <<lists, dicts, domino_sets, local, pc, resp, created, handed,
                   last_accessed, now, gen, redis, envelopes>>

\* every request, with one websocket
NextNotify ==
    \/ \E q \in NotifySets : NotifyCreateSet(q[1], q[2])
    \/ \E w \in NotifyChans : WsOpen(w, TheSet)
    \/ \E w \in NotifyChans : WsConnect(w)
    \/ \E w \in NotifyChans : ClientClose(w)
    \/ \E w \in NotifyChans : WsDisconnect(w)
    \/ \E r \in Reqs, b \in BOOLEAN : NotifyShuffleSet(r, b)
    \/ \E r \in Reqs, c \in 1..MaxCount : NotifyDrawTiles(r, c)
    \/ \E r \in Reqs, p \in RequestPiles : NotifyCreatePile(r, p)
    \/ \E r \in Reqs, p \in RequestPiles, ts \in NotifyTiles : NotifyAddToPile(r, p, ts)
    \/ \E r \in Reqs, p \in RequestPiles : NotifyDrawFromPile(r, p)
    \/ \E r \in Reqs, p \in RequestPiles, ts \in NotifyTiles : NotifyReturnToBoneyard(r, p, ts)
    \/ \E r \in Reqs, p \in RequestPiles : NotifyDeletePile(r, p)
    \/ \E r \in Reqs : NotifyDeleteSet(r)
    \/ \E r \in Reqs : SendDone(r)

SpecNotify == Init /\ [][NextNotify]_vars

\* every websocket, with the shuffle of the boneyard as the request that is
\* broadcast
NextFanOut ==
    \/ \E q \in NotifySets : NotifyCreateSet(q[1], q[2])
    \/ \E w \in Chans : WsOpen(w, TheSet)
    \/ \E w \in Chans : WsConnect(w)
    \/ \E w \in Chans : ClientClose(w)
    \/ \E w \in Chans : WsDisconnect(w)
    \/ \E r \in Reqs : NotifyShuffleSet(r, TRUE)
    \/ \E r \in Reqs : NotifyDeleteSet(r)
    \/ \E r \in Reqs : SendDone(r)

SpecFanOut == Init /\ [][NextFanOut]_vars

----------------------------------------------------------------------------
(* The subscribers with USE_REDIS true: the records are in Redis, and      *)
(* websocket_endpoint and broadcast_set_update look the set up in the      *)
(* dict domino_sets of the process.                                        *)

\* POST /api/set/{set_id}/shuffle?remaining=true served from Redis, then
\* the broadcast
RedisNotifyShuffleSet(r) ==
    /\ passes[r].at = "none"
    /\ TheSet \in DOMAIN redis.sets
    /\ redis_get_set(TheSet).version + 2 <= MaxRedisVersion
    /\ \E order \in Permutations_of(redis_get_set(TheSet).tiles) :
         redis' = redis_request(redis, TheSet, "shuffle_remaining",
                                redis_shuffle_set(redis_get_set(TheSet), TRUE, order), now)
    /\ broadcast_set_update(r, "shuffle_remaining", 200, domino_sets)
    /\ resp' = [op |-> "shuffle_remaining", status |-> 200]
    /\ UNCHANGED <<lists, dicts, domino_sets, local, pc, created, handed,
                   last_accessed, now, gen>>

NextRedisNotify ==
    \/ \E q \in StoreSets : RedisCreateSet(TheSet, q[1], q[2], FALSE)
    \/ \E w \in Chans : WsOpen(w, TheSet)
    \/ \E r \in Reqs : RedisNotifyShuffleSet(r)
    \/ RedisTick

SpecRedisNotify == Init /\ [][NextRedisNotify]_vars

----------------------------------------------------------------------------
(* generate_tiles run step by step: the lookup of the type, then one tile  *)
(* of the comprehension per step.                                          *)

InitTiles ==
    /\ lists = [i \in ObjIds |-> <<>>]
    /\ dicts = [i \in ObjIds |-> <<>>]
    /\ domino_sets = <<>>
    /\ local = [r \in Reqs |-> NoRec]
    /\ pc = [r \in Reqs |-> "idle"]
    /\ resp = NoResp
    /\ created = <<>>
    /\ handed = <<>>
    /\ last_accessed = <<>>
    /\ now = 0
    /\ Disconnected
    /\ \E t \in GenTypes :
          gen = [set_type |-> t, at |-> "call", i |-> 0, j |-> 0, tiles |-> <<>>]

\* max_value = {...}[set_type]; a KeyError is raised again as ValueError
GenLookup ==
    /\ gen.at = "call"
    /\ gen' = [gen EXCEPT !.at = IF gen.set_type \in VALID_DOMINO_TYPES
                                 THEN "loop" ELSE "ValueError"]
    /\ UNCHANGED <<lists, dicts, domino_sets, local, pc, resp, created, handed,
                   last_accessed, now, redis, notifier>>

\* one f"{i}{j}" of: for i in range(max_value + 1)
\*                       for j in range(i, max_value + 1)
GenAppend ==
    /\ gen.at = "loop"
    /\ LET N == max_value[gen.set_type]
       IN  gen' = [gen EXCEPT
                     !.tiles = Append(@, tile_id(gen.i, gen.j)),
                     !.j  = IF gen.j < N THEN gen.j + 1 ELSE gen.i + 1,
                     !.i  = IF gen.j < N THEN gen.i ELSE gen.i + 1,
                     !.at = IF gen.j < N \/ gen.i < N THEN "loop" ELSE "return"]
    /\ UNCHANGED <<lists, dicts, domino_sets, local, pc, resp, created, handed,
                   last_accessed, now, redis, notifier>>

NextTiles == GenLookup \/ GenAppend

SpecTiles == InitTiles /\ [][NextTiles]_vars

----------------------------------------------------------------------------
(* What the properties read *)

\* the stored record of the one set: its boneyard, its piles, all its tiles
Yard  == lists[domino_sets[TheSet].tiles]
Piles == dicts[domino_sets[TheSet].piles]
Held  == AllTiles(View(domino_sets[TheSet]))

\* the contents of pile p, none when there is no such pile
PileOr(p) == IF p \in DOMAIN Piles THEN Piles[p] ELSE <<>>

\* the value of every stored record
StoreView == [s \in DOMAIN domino_sets |-> View(domino_sets[s])]

RECURSIVE KeepLater(_, _, _)
\* s from position i on, without the first Count(ts, x) occurrences in s of
\* every id x
KeepLater(s, ts, i) ==
    IF i > Len(s) THEN <<>>
    ELSE (IF Cardinality({j \in 1..i : s[j] = s[i]}) > Count(ts, s[i])
          THEN <<s[i]>> ELSE <<>>) \o KeepLater(s, ts, i + 1)

Failed == {400, 404, 409, 500}

----------------------------------------------------------------------------
(* C1 *)

\* C1 (as stated): no operation creates or destroys a tile: a record whose
\* boneyard and piles together hold the multiset of tiles it had at creation
\* holds it after every operation.
C1_UnionIsCreation ==
    [][BagOf(Held) = created[TheSet] => BagOf(Held)' = created[TheSet]]_vars

\* C1 (amended): in every state the engine's operations reach, the boneyard,
\* the piles and the tiles handed to callers by drawFromBoneyard and
\* drawFromPile together are the multiset of tiles the record had at
\* creation.
C1_Conservation ==
    BagPlus(BagOf(Held), handed[TheSet]) = created[TheSet]

\* a tile was drawn from a pile while the boneyard and a pile hold tiles
C1_Witness ==
    /\ resp = [op |-> "pile_draw", status |-> 200]
    /\ Yard # <<>>
    /\ \E p \in DOMAIN Piles : Piles[p] # <<>>

----------------------------------------------------------------------------
(* C2 *)

\* C2: concurrent draws on one set are serialized: a draw that succeeds was
\* applied to the record stored when it is persisted, so the stored boneyard
\* afterwards is what was stored before, less its first `count` tiles.
C2_DrawsSerialized ==
    [][resp'.op = "draw" /\ resp'.status = 200 =>
         \A r \in Reqs, c \in 1..MaxCount :
            DrawTiles(r, c) => Yard' = SubSeq(Yard, c + 1, Len(Yard))]_vars

----------------------------------------------------------------------------
(* C3 *)

\* C3: an operation that fails (400, 404, 409 or 500) leaves every stored
\* record - boneyard, piles and version - as it was.
C3_FailureKeepsStore ==
    [][resp'.status \in Failed => StoreView' = StoreView]_vars

\* a return to the boneyard was refused while the pile held tiles
C3_Witness ==
    /\ resp = [op |-> "return", status |-> 400]
    /\ TheSet \in DOMAIN domino_sets
    /\ PileOr("p1") # <<>>

----------------------------------------------------------------------------
(* C4 *)

\* C4: a successful add request is persisted: the stored boneyard afterwards
\* is shorter by the number of tiles moved.
C4_AddPersisted ==
    [][resp'.op = "add" /\ resp'.status = 200 =>
         \A r \in Reqs, p \in RequestPiles, ts \in ListsOver(RequestTiles) :
            AddToPile(r, p, ts) => Len(Yard') = Len(Yard) - Len(ts)]_vars

----------------------------------------------------------------------------
(* C5 *)

\* C5: drawFromBoneyard(n) on a boneyard of at least n tiles returns its
\* first n tiles in order and leaves the other tiles in order; the count it
\* returns is the new length.
C5_DrawFirst ==
    [][resp'.op = "draw" =>
         \A c \in 1..MaxCount :
            EngDraw(c) /\ c <= Len(Yard) =>
               /\ resp'.status = 200
               /\ draw_tiles(local[Caller], c).ret = SubSeq(Yard, 1, c)
               /\ draw_tiles(local[Caller], c).n = Len(Yard) - c
               /\ Yard' = SubSeq(Yard, c + 1, Len(Yard))]_vars

\* a draw succeeded and left tiles in the boneyard
C5_Witness ==
    /\ resp = [op |-> "draw", status |-> 200]
    /\ Yard # <<>>

----------------------------------------------------------------------------
(* C6 *)

\* C6: drawFromBoneyard(count) fails with 409 exactly when count exceeds the
\* boneyard's length; a count equal to the length succeeds and empties the
\* boneyard; a failing draw leaves boneyard and piles as they were.
C6_DrawConflict ==
    [][resp'.op = "draw" =>
         \A c \in 1..MaxCount :
            EngDraw(c) =>
               /\ resp'.status = 409 <=> c > Len(Yard)
               /\ resp'.status \in {200, 409}
               /\ c = Len(Yard) => resp'.status = 200 /\ Yard' = <<>>
               /\ resp'.status = 409 => Yard' = Yard /\ Piles' = Piles]_vars

\* a draw was refused on a boneyard that holds tiles
C6_Witness ==
    /\ resp = [op |-> "draw", status |-> 409]
    /\ Len(Yard) = 2

----------------------------------------------------------------------------
(* C7 *)

\* C7: the removal pass of addToPile and returnToBoneyard never fails: no
\* operation ends with 500.
C7_NoInternalInconsistency == resp.status # 500

----------------------------------------------------------------------------
(* C8 *)

\* C8: a successful addToPile removes from the boneyard the first occurrence
\* of every requested id (once per request of it), the other tiles keeping
\* their order, and appends the request, in its order, to the named pile,
\* which it creates if absent; the other piles are left alone; listPile
\* returns the pile as it stands.
C8_AddMoves ==
    [][resp'.op \in {"add", "list"} /\ resp'.status = 200 =>
         /\ \A p \in PileNames, ts \in ListsOver(RequestTiles) :
               EngAdd(p, ts) =>
                  /\ Yard' = KeepLater(Yard, ts, 1)
                  /\ DOMAIN Piles' = DOMAIN Piles \cup {p}
                  /\ Piles'[p] = PileOr(p) \o ts
                  /\ \A q \in DOMAIN Piles \ {p} : Piles'[q] = Piles[q]
         /\ \A p \in PileNames :
               EngList(p) =>
                  /\ list_pile(local[Caller], p).ret = Piles[p]
                  /\ Yard' = Yard /\ Piles' = Piles]_vars

\* tiles were added to a pile that now holds two, one left in the boneyard
C8_Witness ==
    /\ resp = [op |-> "add", status |-> 200]
    /\ \E p \in DOMAIN Piles : Len(Piles[p]) = 2
    /\ Len(Yard) = 1

----------------------------------------------------------------------------
(* C9 *)

\* C9: returnToBoneyard fails with 404 when the named pile is absent; when it
\* succeeds the pile has lost one occurrence of every requested id (once per
\* request of it) and is kept even if empty, the request is appended in its
\* order to the boneyard, and the request and the new boneyard length are
\* returned.
C9_ReturnMoves ==
    [][resp'.op = "return" =>
         \A p \in PileNames, ts \in ListsOver(RequestTiles) :
            EngReturn(p, ts) =>
               LET out == return_to_boneyard(local[Caller], p, ts)
               IN  /\ p \notin DOMAIN Piles => resp'.status = 404
                   /\ resp'.status = 200 =>
                        /\ p \in DOMAIN Piles /\ DOMAIN Piles' = DOMAIN Piles
                        /\ SameBag(Piles'[p] \o ts, Piles[p])
                        /\ Len(Piles'[p]) = Len(Piles[p]) - Len(ts)
                        /\ \A q \in DOMAIN Piles \ {p} : Piles'[q] = Piles[q]
                        /\ Yard' = Yard \o ts
                        /\ out.ret = ts
                        /\ out.n = Len(Yard) + Len(ts)]_vars

\* tiles were returned and emptied a pile, which is still there
C9_Witness ==
    /\ resp = [op |-> "return", status |-> 200]
    /\ \E p \in DOMAIN Piles : Piles[p] = <<>>
    /\ Len(Yard) >= 2

----------------------------------------------------------------------------
(* C10 *)

\* C10 (as stated): addToPile followed by returnToBoneyard with the same list
\* restores the boneyard's multiset and the pile's prior contents.
C10_RoundTripRestoresPile ==
    [][resp'.op = "add" /\ resp'.status = 200 =>
         \A p \in PileNames, ts \in ListsOver(RequestTiles) :
            EngAdd(p, ts) =>
               LET back == return_moves(Yard', Piles', p, ts)
               IN  /\ back.status = 200
                   /\ SameBag(back.tiles, Yard)
                   /\ back.pile = PileOr(p)]_vars

\* C10 (amended): addToPile followed by returnToBoneyard with the same list
\* is accepted, keeps the number of tiles of boneyard and piles after either
\* step, and restores the multiset of the boneyard and the multiset of the
\* pile (the order of either may differ).
C10_RoundTrip ==
    [][resp'.op = "add" /\ resp'.status = 200 =>
         \A p \in PileNames, ts \in ListsOver(RequestTiles) :
            EngAdd(p, ts) =>
               LET back == return_moves(Yard', Piles', p, ts)
               IN  /\ Len(Held') = Len(Held)
                   /\ back.status = 200
                   /\ Len(back.tiles) + Len(back.pile) = Len(Yard) + Len(PileOr(p))
                   /\ SameBag(back.tiles, Yard)
                   /\ SameBag(back.pile, PileOr(p))]_vars

\* an id was added to a pile that held it already, before another id
C10_Witness ==
    /\ resp = [op |-> "add", status |-> 200]
    /\ \E p \in DOMAIN Piles : \E i, j \in DOMAIN Piles[p] :
          /\ i < j /\ j = Len(Piles[p])
          /\ Piles[p][i] = Piles[p][j]
          /\ \E k \in (i+1)..(j-1) : Piles[p][k] # Piles[p][i]

----------------------------------------------------------------------------
(* C11 *)

\* C11: after shuffle with scope ALL the boneyard holds, as a multiset, the
\* prior boneyard and the contents of every prior pile, there are no piles,
\* and the size returned is the length of the new boneyard.
C11_ShuffleAll ==
    [][resp'.op = "shuffle_all" =>
         /\ resp'.status = 200
         /\ SameBag(Yard', Held)
         /\ Len(Yard') = Len(Yard) + Len(Flatten(Piles, DOMAIN Piles))
         /\ DOMAIN Piles' = {}
         /\ shuffle_set(local[Caller], FALSE, Yard').n = Len(Yard')]_vars

\* all tiles were shuffled: they are in the boneyard, not in generation
\* order, and there is no pile
C11_Witness ==
    /\ resp = [op |-> "shuffle_all", status |-> 200]
    /\ DOMAIN Piles = {}
    /\ Len(Yard) = MaxHeld
    /\ \E i \in 1..(Len(Yard) - 1) : Yard[i] = "11" /\ Yard[i + 1] = "00"

----------------------------------------------------------------------------
(* C12 *)

\* C12: createPile with a name the record has fails with 409 and leaves the
\* piles (their number and their contents) and the boneyard as they were;
\* with a new name it adds an empty pile and changes nothing else.
C12_CreatePile ==
    [][resp'.op = "create_pile" =>
         \A p \in PileNames :
            EngCreatePile(p) =>
               /\ resp'.status = (IF p \in DOMAIN Piles THEN 409 ELSE 200)
               /\ Yard' = Yard
               /\ p \in DOMAIN Piles => Piles' = Piles
               /\ p \notin DOMAIN Piles =>
                     /\ DOMAIN Piles' = DOMAIN Piles \cup {p}
                     /\ Piles'[p] = <<>>
                     /\ \A q \in DOMAIN Piles : Piles'[q] = Piles[q]]_vars

\* a second createPile was refused for a pile that holds tiles
C12_Witness ==
    /\ resp = [op |-> "create_pile", status |-> 409]
    /\ \E p \in DOMAIN Piles : Piles[p] # <<>>
    /\ Cardinality(DOMAIN Piles) = 2

----------------------------------------------------------------------------
(* C13 *)

\* C13: drawFromPile fails with 404 exactly when the pile is absent or empty;
\* otherwise the id handed out was in the pile, the pile has lost exactly one
\* occurrence of it (the other tiles keep their order), and the boneyard and
\* the other piles are as they were.
C13_PileDraw ==
    [][resp'.op = "pile_draw" =>
         \A p \in PileNames :
            EngPileDraw(p) =>
               /\ resp'.status = (IF p \notin DOMAIN Piles \/ Piles[p] = <<>> THEN 404 ELSE 200)
               /\ Yard' = Yard
               /\ resp'.status = 404 => Piles' = Piles /\ handed' = handed
               /\ resp'.status = 200 =>
                     /\ DOMAIN Piles' = DOMAIN Piles
                     /\ \A q \in DOMAIN Piles \ {p} : Piles'[q] = Piles[q]
                     /\ Len(Piles'[p]) = Len(Piles[p]) - 1
                     /\ \E i \in DOMAIN Piles[p] :
                           /\ Piles'[p] = DropAt(Piles[p], i)
                           /\ handed'[TheSet] =
                                 BagPlus(handed[TheSet], BagOf(<<Piles[p][i]>>))
                           /\ Count(Piles'[p], Piles[p][i]) = Count(Piles[p], Piles[p][i]) - 1]_vars

\* a tile was drawn from a pile that held it twice: one is still there
C13_Witness ==
    /\ resp = [op |-> "pile_draw", status |-> 200]
    /\ \E p \in DOMAIN Piles, t \in TileIds :
          /\ Piles[p] = <<t>>
          /\ handed[TheSet][t] >= 1
          /\ Count(Held, t) + handed[TheSet][t] = created[TheSet][t]
          /\ Yard = <<>>
          /\ created[TheSet][t] = 2

----------------------------------------------------------------------------
(* C14 *)

\* C14: deletePile fails with 404 when the pile is absent; otherwise it
\* appends the pile's tiles, in pile order, to the boneyard and removes the
\* pile's entry: the boneyard grows by the pile's size, the other piles are
\* as they were.
C14_DeletePile ==
    [][resp'.op = "delete_pile" =>
         \A p \in PileNames :
            EngDeletePile(p) =>
               /\ resp'.status = (IF p \in DOMAIN Piles THEN 200 ELSE 404)
               /\ p \notin DOMAIN Piles => Yard' = Yard /\ Piles' = Piles
               /\ p \in DOMAIN Piles =>
                     /\ Yard' = Yard \o Piles[p]
                     /\ Len(Yard') = Len(Yard) + Len(Piles[p])
                     /\ DOMAIN Piles' = DOMAIN Piles \ {p}
                     /\ \A q \in DOMAIN Piles' : Piles'[q] = Piles[q]]_vars

\* a pile was deleted: the boneyard holds every tile of the record, and
\* another pile is still there
C14_Witness ==
    /\ resp = [op |-> "delete_pile", status |-> 200]
    /\ Len(Yard) = MaxHeld
    /\ Cardinality(DOMAIN Piles) = 1

----------------------------------------------------------------------------
(* C15 *)

\* C15: createSet(type, k) stores a new record under an id that had none; its
\* boneyard has k times the length of generateTiles(type) and holds every id
\* k times as often as generateTiles(type) does; it has no piles and version
\* 1; the id gets an access record, of the current time.
C15_CreateSet ==
    [][resp'.op = "create" =>
         \A s \in SetIds, q \in StoreSets :
            CreateSet(s, q[1], q[2]) =>
               /\ s \notin DOMAIN domino_sets
               /\ DOMAIN domino_sets' = DOMAIN domino_sets \cup {s}
               /\ Len(lists'[domino_sets'[s].tiles]) = q[2] * Len(generate_tiles(q[1]))
               /\ \A t \in TileIds :
                     Count(lists'[domino_sets'[s].tiles], t)
                        = q[2] * Count(generate_tiles(q[1]), t)
               /\ DOMAIN dicts'[domino_sets'[s].piles] = {}
               /\ domino_sets'[s].version = 1
               /\ domino_sets'[s].type = q[1]
               /\ s \notin DOMAIN last_accessed
               /\ DOMAIN last_accessed' = DOMAIN last_accessed \cup {s}
               /\ last_accessed'[s] = now]_vars

\* a record of two sets was created, after time had passed
C15_Witness ==
    /\ resp = [op |-> "create", status |-> 201]
    /\ TheSet \in DOMAIN domino_sets
    /\ Yard = <<"00", "00">>
    /\ now > 0 /\ last_accessed[TheSet] = now

----------------------------------------------------------------------------
(* C16 *)

\* C16: for every supported set type, of maximum value N (6, 9, 12, 15, 18),
\* generateTiles yields (N+1)(N+2)/2 ids, pairwise distinct as strings (no
\* id is yielded twice at any point of the generation); a type that is not
\* supported fails with ValueError and yields nothing.
C16_GenerateTiles ==
    /\ gen.at = "ValueError" => gen.set_type \notin VALID_DOMINO_TYPES /\ gen.tiles = <<>>
    /\ gen.at \in {"loop", "return"} =>
          /\ gen.set_type \in VALID_DOMINO_TYPES
          /\ max_value[gen.set_type] \in {6, 9, 12, 15, 18}
          /\ \A a \in 1..(Len(gen.tiles) - 1) : gen.tiles[a] # gen.tiles[Len(gen.tiles)]
    /\ gen.at = "return" =>
          LET N == max_value[gen.set_type]
          IN  /\ Len(gen.tiles) = ((N + 1) * (N + 2)) \div 2
              /\ Cardinality(Range(gen.tiles)) = Len(gen.tiles)
              /\ gen.tiles = generate_tiles(gen.set_type)

\* the double-eighteen set was generated: 190 ids, among them 1 with 11 and
\* 11 with 11
C16_Witness ==
    /\ gen.at = "return"
    /\ gen.set_type = "double-eighteen"
    /\ Len(gen.tiles) = 190
    /\ Contains(gen.tiles, "111") /\ Contains(gen.tiles, "1111")

\* the call with a type that is not supported failed
C16_WitnessInvalid ==
    /\ gen.at = "ValueError"
    /\ gen.set_type = "double-seven"

----------------------------------------------------------------------------
(* C17 *)

\* C17: get(id) fails with 404 when no record is stored under id, and then
\* creates no access record and changes nothing; when the record exists the
\* caller gets its boneyard, piles and version, the access record of id is
\* set to the current time, and the stored records are as they were.
C17_Get ==
    [][resp'.op = "get" =>
         \A r \in Reqs, s \in SetIds :
            GetSet(r, s) =>
               /\ resp'.status = (IF s \in DOMAIN domino_sets THEN 200 ELSE 404)
               /\ StoreView' = StoreView
               /\ s \notin DOMAIN domino_sets =>
                     /\ last_accessed' = last_accessed
                     /\ local' = local
               /\ s \in DOMAIN domino_sets =>
                     /\ local'[r].set_id = s
                     /\ lists'[local'[r].tiles] = lists[domino_sets[s].tiles]
                     /\ dicts'[local'[r].piles] = dicts[domino_sets[s].piles]
                     /\ local'[r].version = domino_sets[s].version
                     /\ DOMAIN last_accessed' = DOMAIN last_accessed \cup {s}
                     /\ last_accessed'[s] = now
                     /\ \A u \in DOMAIN last_accessed \ {s} :
                           last_accessed'[u] = last_accessed[u]]_vars

\* a get of a deleted set failed, and the set has no access record
C17_Witness ==
    /\ resp = [op |-> "get", status |-> 404]
    /\ TheSet \in DOMAIN created
    /\ TheSet \notin DOMAIN domino_sets
    /\ TheSet \notin DOMAIN last_accessed

\* a get succeeded later than the record was made
C17_WitnessFound ==
    /\ resp = [op |-> "get", status |-> 200]
    /\ now = MaxTime
    /\ last_accessed[TheSet] = now

----------------------------------------------------------------------------
(* C18 *)

\* C18: delete(id) returns true exactly when a record is stored under id, and
\* then the record and its access entry are gone; otherwise it returns false
\* and changes nothing.  A delete that follows it returns false.
C18_Delete ==
    [][resp'.op = "delete_set" =>
         \A s \in SetIds :
            DeleteSet(s) =>
               /\ resp'.status = (IF s \in DOMAIN domino_sets THEN 1 ELSE 0)
               /\ s \in DOMAIN domino_sets =>
                     /\ DOMAIN domino_sets' = DOMAIN domino_sets \ {s}
                     /\ DOMAIN last_accessed' = DOMAIN last_accessed \ {s}
               /\ s \notin DOMAIN domino_sets =>
                     /\ domino_sets' = domino_sets
                     /\ last_accessed' = last_accessed
                     /\ lists' = lists /\ dicts' = dicts
               /\ ~delete_set(domino_sets', last_accessed', s).ok]_vars

\* a record that had been loaded was deleted: record and access entry are gone
C18_Witness ==
    /\ resp = [op |-> "delete_set", status |-> 1]
    /\ TheSet \notin DOMAIN domino_sets
    /\ TheSet \notin DOMAIN last_accessed
    /\ \E r \in Reqs : local[r].set_id = TheSet

----------------------------------------------------------------------------
(* C19 *)

\* C19: put is idempotent under retry: persisting the caller's record once
\* more leaves the store as the first put left it, version included.
C19_PutIdempotent ==
    [][resp'.op = "save" =>
         \A r \in Reqs :
            SaveSet(r) =>
               save_set(local'[r].set_id, local'[r]).version
                  = domino_sets'[local'[r].set_id].version]_vars

----------------------------------------------------------------------------
(* C20 *)

\* C20: every successful mutating request (shuffle, drawFromBoneyard,
\* createPile, addToPile, drawFromPile, returnToBoneyard, deletePile) is
\* persisted with the stored record's version incremented.
C20_MutationsVersioned ==
    [][resp'.status = 200 /\ resp'.op \notin {"get", "list"} =>
         \A r \in Reqs :
            (\/ \E b \in BOOLEAN : ShuffleSet(r, b)
             \/ \E c \in 1..MaxCount : DrawTiles(r, c)
             \/ \E s \in SetIds, p \in RequestPiles : CreatePile(r, s, p)
             \/ \E p \in RequestPiles, ts \in ListsOver(RequestTiles) : AddToPile(r, p, ts)
             \/ \E p \in RequestPiles : DrawFromPile(r, p)
             \/ \E p \in RequestPiles, ts \in ListsOver(RequestTiles) :
                   ReturnToBoneyard(r, p, ts)
             \/ \E p \in RequestPiles : DeletePile(r, p))
            => domino_sets'[TheSet].version = domino_sets[TheSet].version + 1]_vars

----------------------------------------------------------------------------
(* C21 *)

\* C21: a sweep at time now removes, record and access entry, exactly the
\* stored sets whose last access is older than now - ttl: a set accessed
\* within ttl is kept, and after the sweep no stored set has a last access
\* older than now - ttl.
C21_Sweep ==
    [][resp'.op = "sweep" /\ Sweep =>
         /\ \A s \in DOMAIN domino_sets :
               s \in DOMAIN domino_sets' <=>
                  ~(s \in DOMAIN last_accessed
                      /\ last_accessed[s] < now - SET_EXPIRY_SECONDS)
         /\ DOMAIN domino_sets' \subseteq DOMAIN domino_sets
         /\ \A s \in DOMAIN domino_sets \ DOMAIN domino_sets' :
               s \notin DOMAIN last_accessed'
         /\ \A s \in DOMAIN domino_sets' :
               /\ View(domino_sets[s])' = View(domino_sets[s])
               /\ s \in DOMAIN last_accessed =>
                     /\ s \in DOMAIN last_accessed'
                     /\ last_accessed'[s] = last_accessed[s]
                     /\ last_accessed'[s] >= now - SET_EXPIRY_SECONDS]_vars

\* after a sweep at the latest time the set and its access entry are gone
C21_WitnessGone ==
    /\ resp = [op |-> "sweep", status |-> 200]
    /\ now = MaxTime
    /\ TheSet \in DOMAIN created
    /\ TheSet \notin DOMAIN domino_sets
    /\ TheSet \notin DOMAIN last_accessed

\* a sweep kept a set that was accessed exactly ttl ago
C21_Witness ==
    /\ resp = [op |-> "sweep", status |-> 200]
    /\ TheSet \in DOMAIN domino_sets
    /\ TheSet \in DOMAIN last_accessed
    /\ last_accessed[TheSet] = now - SET_EXPIRY_SECONDS

----------------------------------------------------------------------------
(* C22 *)

\* C22: a sweep that raises is not propagated: the create-new-set and the
\* list-all-sets requests end with their normal status (201, 200).
C22_SweepFailureSwallowed ==
    [][/\ resp'.op = "create" =>
             \A s \in SetIds, q \in StoreSets :
                RedisCreateSet(s, q[1], q[2], TRUE) => resp'.status = 201
       /\ resp'.op = "list_sets" =>
             (RedisListSets(TRUE) => resp'.status = 200)]_vars

----------------------------------------------------------------------------
(* C23 *)

\* the records Redis holds
RedisView == [s \in DOMAIN redis.sets |-> redis.sets[s].value]

\* C23: whichever backend is active, the listing that list-all-sets returns
\* has one entry for every record stored after its sweep.
C23_ListsEveryRecord ==
    [][resp'.op = "list_sets" /\ resp'.status = 200 =>
         /\ ListSets =>
               {e.set_id : e \in list_sets(FALSE, get_all_sets')} = DOMAIN domino_sets'
         /\ RedisListSets(FALSE) =>
               {e.set_id : e \in list_sets(TRUE, RedisView')} = DOMAIN redis'.sets]_vars

----------------------------------------------------------------------------
(* C25 *)

\* C25: with Redis every successful get and every put renews the lease of
\* the set key and of the access key: both run out a full expiry period
\* after the operation.
C25_LeasesRenewed ==
    [][resp'.op \in {"get", "save"} /\ resp'.status = 200 =>
         \A r \in Reqs, s \in SetIds :
            (RedisGetSet(r, s) \/ (RedisSaveSet(r) /\ redis.held[r].set_id = s)) =>
               /\ s \in DOMAIN redis'.sets
               /\ redis'.sets[s].ex = now + SET_EXPIRY_SECONDS
               /\ s \in DOMAIN redis'.access
               /\ redis'.access[s].ex = now + SET_EXPIRY_SECONDS]_vars

\* C24: the two backends have the same external semantics: after the same
\* requests with the same random choices and no lease run out, the record a
\* load returns (boneyard, piles, version) is the same with the
\* process-local store and with Redis.
C24_BackendsAgree ==
    (TheSet \in DOMAIN domino_sets /\ TheSet \in DOMAIN redis.sets)
        => View(domino_sets[TheSet])
             = [tiles |-> redis_get_set(TheSet).tiles,
                piles |-> redis_get_set(TheSet).piles,
                version |-> redis_get_set(TheSet).version]

\* the same for the tiles alone, whatever the version numbers
C24_SameTiles ==
    (TheSet \in DOMAIN domino_sets /\ TheSet \in DOMAIN redis.sets)
        => /\ lists[domino_sets[TheSet].tiles] = redis_get_set(TheSet).tiles
           /\ dicts[domino_sets[TheSet].piles] = redis_get_set(TheSet).piles

\* the websocket is in the list of the set
Registered(conns, w) == TheSet \in DOMAIN conns /\ Contains(conns[TheSet], w)

\* caller r makes one of the seven mutating requests
Mutation(r) ==
    \/ \E b \in BOOLEAN : NotifyShuffleSet(r, b)
    \/ \E c \in 1..MaxCount : NotifyDrawTiles(r, c)
    \/ \E p \in RequestPiles : NotifyCreatePile(r, p)
    \/ \E p \in RequestPiles, ts \in NotifyTiles : NotifyAddToPile(r, p, ts)
    \/ \E p \in RequestPiles : NotifyDrawFromPile(r, p)
    \/ \E p \in RequestPiles, ts \in NotifyTiles : NotifyReturnToBoneyard(r, p, ts)
    \/ \E p \in RequestPiles : NotifyDeletePile(r, p)

\* C26: observers are notified of every mutation: a successful mutating
\* request (shuffle, draw, pile creation, add, pile draw, return, pile
\* deletion) on a set with registered channels starts a broadcast of one new
\* envelope over the channels registered for the set.
C26_EveryMutationBroadcast ==
    [][\A r \in Reqs :
          (Mutation(r) /\ resp'.status = 200 /\ TheSet \in DOMAIN active_connections)
            => /\ envelopes' = envelopes + 1
               /\ passes'[r].at = "send"
               /\ passes'[r].start = active_connections[TheSet]]_vars

\* the websockets whose send has raised once the send caller r's broadcast
\* is suspended in is over
FailedBy(r) ==
    Range(passes[r].disconnected_clients)
      \cup (IF sockets[passes[r].connection].at = "open" THEN {} ELSE {passes[r].connection})

\* C27: in a broadcast pass a failed send to one channel does not keep the
\* pass from going on with the next channel registered for the set, the pass
\* leaves the registry alone while it iterates, when the pass is over exactly
\* the channels whose send failed have been removed from the registry, and a
\* broadcast for a set with no channel registered changes nothing.
C27_BroadcastPass ==
    [][/\ \A r \in Reqs :
            SendDone(r) =>
              IF passes[r].idx < Len(iterated(passes[r]))
              THEN /\ passes'[r].at = "send"
                   /\ passes'[r].connection = iterated(passes[r])[passes[r].idx + 1]
                   /\ active_connections' = active_connections
              ELSE /\ passes'[r].at = "none"
                   /\ \A w \in Chans :
                        Registered(active_connections', w)
                          <=> (Registered(active_connections, w) /\ w \notin FailedBy(r))
       /\ \A r \in Reqs :
            (NotifyShuffleSet(r, TRUE) /\ TheSet \notin DOMAIN active_connections)
              => UNCHANGED notifier]_vars

\* a pass has gone on to the second channel after the send to the first one
\* failed
C27_Witness ==
    \E r \in Reqs :
        /\ passes[r].at = "send"
        /\ passes[r].disconnected_clients # <<>>
        /\ passes[r].connection \notin Range(passes[r].disconnected_clients)

\* a pass has removed the channel whose client is gone, before the handler
\* of the channel did, and has delivered to the other channel
C27_WitnessPruned ==
    \E w \in Chans, v \in Chans :
        /\ sockets[w].at = "broken"
        /\ ~Registered(active_connections, w)
        /\ Registered(active_connections, v)
        /\ \E i \in DOMAIN sockets[v].inbox : sockets[v].inbox[i].event = "update"

\* C28: when a subscriber is disconnected by its own handler while a
\* broadcast pass for the set is suspended on a send, every channel that was
\* registered when the pass began and is registered when it ends has
\* received the envelope.
C28_NoSubscriberSkipped ==
    [][\A r \in Reqs :
          (SendDone(r) /\ passes'[r].at = "none")
            => \A w \in Range(passes[r].start) :
                  Registered(active_connections', w)
                    => Contains(sockets'[w].inbox, passes[r].message)]_vars

C30_RejectedSubscription ==
    [][/\ \A w \in Chans :
            (TheSet \notin DOMAIN domino_sets /\ WsOpen(w, TheSet))
              => /\ UNCHANGED <<active_connections, passes, domino_sets, lists, dicts,
                               last_accessed, redis>>
                 /\ sockets'[w].at = "closed"
                 /\ sockets'[w].code = 1008
                 /\ \A v \in Chans \ {w} : sockets'[v] = sockets[v]
       /\ \A w \in Chans :
            sockets'[w].code = 1008
              => /\ sockets'[w].inbox = <<[event |-> "error", id |-> 0]>>
                 /\ sockets'[w].at = "closed"
                 /\ ~Registered(active_connections', w)]_vars

\* a subscription was rejected while another channel is registered for the
\* set, which has been deleted
C30_Witness ==
    \E w \in Chans :
        /\ sockets[w].code = 1008
        /\ TheSet \in DOMAIN active_connections
        /\ TheSet \in DOMAIN created

\* C31: an accepted subscriber receives the connected envelope first and
\* only after it the envelopes of the broadcasts for its set, and every
\* broadcast that begins while the channel is registered has reached the
\* channel when the pass is over, as long as the channel is open.
C31_ConnectedThenForwarded ==
    [][/\ \A w \in Chans :
            (sockets'[w].code # 1008 /\ sockets'[w].inbox # <<>>)
              => /\ sockets'[w].inbox[1].event = "connected"
                 /\ \A i \in 2..Len(sockets'[w].inbox) : sockets'[w].inbox[i].event = "update"
       /\ \A r \in Reqs :
            (SendDone(r) /\ passes'[r].at = "none")
              => \A w \in Range(passes[r].start) :
                    (sockets'[w].at = "open" /\ Registered(active_connections', w))
                      => \E i \in DOMAIN sockets'[w].inbox :
                            sockets'[w].inbox[i] = passes[r].message]_vars

\* the first half alone: what a subscriber has received begins with the
\* connected envelope
C31_ConnectedFirst ==
    \A w \in Chans :
        (sockets[w].code # 1008 /\ sockets[w].inbox # <<>>)
          => sockets[w].inbox[1].event = "connected"

\* C32: subscriptions and notifications are the same under both backends:
\* with the records in Redis a subscription for a set id that is stored is
\* accepted, and a mutation of a set with registered channels is broadcast
\* to them.
C32_SubscribeUnderRedis ==
    [][/\ \A w \in Chans :
            (TheSet \in DOMAIN redis.sets /\ WsOpen(w, TheSet))
              => sockets'[w].at = "accepting"
       /\ \A r \in Reqs :
            (RedisNotifyShuffleSet(r) /\ TheSet \in DOMAIN active_connections)
              => passes'[r].at = "send"]_vars

\* C33: no set id of the registry maps to an empty collection of channels;
\* disconnect removes the channel from the collection of its set and the
\* collection with it once it is empty, leaves every other channel
\* registered, and changes nothing when the channel is not registered.
C33_NoEmptyEntry ==
    [][/\ \A k \in DOMAIN active_connections' : active_connections'[k] # <<>>
       /\ \A w \in Chans :
            WsDisconnect(w) =>
              /\ ~Registered(active_connections', w)
              /\ \A v \in Chans \ {w} :
                   Registered(active_connections', v) <=> Registered(active_connections, v)
              /\ ~Registered(active_connections, w)
                   => active_connections' = active_connections]_vars

\* the last registered channel of a stored set has been disconnected by its
\* handler, and the entry of the set has left the registry
C33_Witness ==
    /\ TheSet \in DOMAIN domino_sets
    /\ TheSet \notin DOMAIN active_connections
    /\ \E w \in Chans :
         /\ sockets[w].code = 1000
         /\ \E i \in DOMAIN sockets[w].inbox : sockets[w].inbox[i].event = "connected"

\* C34: in the process-local store a set id has an access record exactly
\* when it has a set record.
C34_AccessRecordIffSet == DOMAIN last_accessed = DOMAIN domino_sets

\* what holds of the two dicts: an access record is never there without
\* its set record
C34_AccessRecordOnlyOfSet == DOMAIN last_accessed \subseteq DOMAIN domino_sets

\* C38: deletion is final: once the record of a set has been removed, by
\* delete_set or by the sweep, no request that loaded the set before the
\* removal and persists afterwards brings the record back.
C38_DeletionFinal ==
    [][\A s \in SetIds :
         (s \in DOMAIN created /\ s \notin DOMAIN domino_sets)
           => s \notin DOMAIN domino_sets']_vars

\* C35: the deletion of a set that has registered channels starts the
\* broadcast of the set_deleted envelope over them.
C35_DeletionBroadcast ==
    [][\A r \in Reqs :
         (NotifyDeleteSet(r) /\ TheSet \in DOMAIN active_connections)
           => /\ envelopes' = envelopes + 1
              /\ passes'[r].at = "send"
              /\ passes'[r].start = active_connections[TheSet]]_vars

\* C36: shuffle with scope REMAINING changes only the order of the boneyard:
\* the boneyard holds the same tiles as often as before and is as long as
\* before, and the piles have the names and the contents, in order, they had.
C36_ShuffleRemaining ==
    [][resp'.op = "shuffle_remaining" =>
         /\ resp'.status = 200
         /\ SameBag(Yard', Yard)
         /\ Len(Yard') = Len(Yard)
         /\ Piles' = Piles
         /\ domino_sets' = domino_sets]_vars

\* a boneyard of two different tiles was shuffled while a pile held a tile
C36_Witness ==
    /\ resp = [op |-> "shuffle_remaining", status |-> 200]
    /\ Len(Yard) = 2 /\ Yard[1] # Yard[2]
    /\ \E p \in DOMAIN Piles : Piles[p] # <<>>

\* C37: no tile occurrence is duplicated: in every state the requests reach,
\* the boneyard and the piles of a stored record together hold no tile more
\* often than the record held it at creation.
C37_NoTileDuplicated ==
    \A s \in DOMAIN domino_sets : \A t \in TileIds :
        BagOf(AllTiles(View(domino_sets[s])))[t] <= created[s][t]

\* C39: the stored version of a set never decreases: whatever the
\* interleaving of the requests, a step that leaves the set stored leaves it
\* with a version at least the version stored before the step.
C39_VersionNeverDecreases ==
    [][\A s \in DOMAIN domino_sets \cap DOMAIN domino_sets' :
          domino_sets'[s].version >= domino_sets[s].version]_vars

\* a request that only reads: the load of a set for an endpoint, the state
\* of a set, the list of all piles, the tiles of one pile
ReadOnly ==
    \E r \in Reqs :
        \/ \E s \in SetIds : Load(r, s) \/ GetSetState(r, s)
        \/ \E p \in RequestPiles : ListPile(r, p)
        \/ ListAllPiles(r)

\* C40: the requests that only read leave every stored record as it was,
\* boneyard, piles and version; of what is stored only the access record of
\* the set they load may change.
C40_ReadOnlyRequests ==
    [][ReadOnly =>
         /\ StoreView' = StoreView
         /\ created' = created /\ handed' = handed
         /\ DOMAIN last_accessed' = DOMAIN last_accessed]_vars

\* the tiles of a pile that holds a tile were listed while the boneyard
\* holds a tile
C40_Witness ==
    /\ resp = [op |-> "list", status |-> 200]
    /\ TheSet \in DOMAIN domino_sets
    /\ Yard # <<>>
    /\ \E p \in DOMAIN Piles : Piles[p] # <<>>

\* the state of a stored set with a pile was read
C40_WitnessState ==
    /\ resp = [op |-> "state", status |-> 200]
    /\ TheSet \in DOMAIN domino_sets
    /\ DOMAIN Piles # {}

====
